---- MODULE Spec2Model ----
(***************************************************************************)
(* Extraction / classification core of the Explify sidecar.                *)
(*                                                                         *)
(* Four components are modelled, each with its own specification:          *)
(*   SpecClassify  the per-family reference-range classifiers              *)
(*   SpecPipeline  page-type detection, OCR and the extraction pipeline    *)
(*   SpecLabs      the lab measurement extractor                           *)
(*   SpecRegistry  the test-type registry, detect() and the correction     *)
(*                 cache                                                   *)
(*                                                                         *)
(* Numeric conventions.  Measurement values and thresholds are integers in *)
(* hundredths of the source unit (0.71 is 71).  An Optional[float] is a    *)
(* sequence of length 0 (None) or 1.  Detection scores are integers in     *)
(* thousandths.  Strings that the code slices or searches are sequences of *)
(* one-character strings.                                                  *)
(***************************************************************************)
EXTENDS Integers, Sequences, FiniteSets, TLC

VARIABLES
  \* ---- reference-range classifiers
  cls,              \* the last classify_measurement call and what it returned
  \* ---- extraction pipeline
  pdf,              \* the PDF being ingested: one record per page
  pc,               \* position inside extract_from_pdf
  detection,        \* DetectionResult.pages built so far
  page_results,     \* pipeline.py page_results
  ocr_results,      \* OCRExtractor.extract_pages results
  warnings,         \* pipeline.py warnings
  result,           \* the ExtractionResult, once assembled
  \* ---- lab measurement extractor
  lab_in,           \* tables and text handed to extract_measurements
  lab_pc,           \* position inside extract_measurements
  lab_results,      \* table_results + text_results so far
  lab_seen,         \* the `seen` set of abbreviations
  lab_out,          \* what extract_measurements returns
  \* ---- registry
  correction_cache, \* registry.py _correction_cache
  cache_ts,         \* registry.py _cache_ts
  now,              \* time.monotonic()
  db_rows,          \* aggregate rows the durable store would return
  refresh_pc,       \* position of the refresh coroutine
  loaded,           \* every complete snapshot a refresh has built
  det,              \* the last detect() call: document, reads, result
  \* ---- table extractors
  tab,              \* the table extraction call and the tables it returned
  \* ---- entry points, handlers, echo extractor, detect_multi
  req,              \* the extraction request being served and its response
  rep,              \* the handler parse call and what it returned
  echo,             \* the echo extraction call and the measurements it returned
  multi,            \* the detect_multi and parse-route calls on one document
  zone,             \* a keyword_zone_weight call: the text, the zones with a hit and the weight
  psm               \* an _ocr_with_best_psm call: the engine's answers and what the call returned

vars_cls  == <<cls>>
vars_pipe == <<pdf, pc, detection, page_results, ocr_results, warnings, result>>
vars_labs == <<lab_in, lab_pc, lab_results, lab_seen, lab_out>>
vars_reg  == <<correction_cache, cache_ts, now, db_rows, refresh_pc, loaded, det>>
vars_ext  == <<tab, req, rep, echo, multi, zone, psm>>
vars      == <<vars_cls, vars_pipe, vars_labs, vars_reg, vars_ext>>
vars_not_tab == <<vars_cls, vars_pipe, vars_labs, vars_reg, req, rep, echo, multi, zone, psm>>
vars_not_req == <<vars_cls, vars_pipe, vars_labs, vars_reg, tab, rep, echo, multi, zone, psm>>
vars_not_rep == <<vars_cls, vars_pipe, vars_labs, vars_reg, tab, req, echo, multi, zone, psm>>
vars_not_echo == <<vars_cls, vars_pipe, vars_labs, vars_reg, tab, req, rep, multi, zone, psm>>
vars_not_multi == <<vars_cls, vars_pipe, vars_labs, vars_reg, tab, req, rep, echo, zone, psm>>
vars_not_zone == <<vars_cls, vars_pipe, vars_labs, vars_reg, tab, req, rep, echo, multi, psm>>
vars_not_psm == <<vars_cls, vars_pipe, vars_labs, vars_reg, tab, req, rep, echo, multi, zone>>

----------------------------------------------------------------------------
\* Generic helpers

Min(a, b) == IF a <= b THEN a ELSE b
Max(a, b) == IF a >= b THEN a ELSE b

\* n / d rounded to the nearest integer (n >= 0, d > 0), halves up.
RoundDiv(n, d) == (2 * n + d) \div (2 * d)

Range(s) == {s[i] : i \in DOMAIN s}

----------------------------------------------------------------------------
\* Reference-range classifiers (test_types/*/reference_ranges.py)

SeverityStatus ==
  {"normal", "mildly_abnormal", "moderately_abnormal", "severely_abnormal", "undetermined"}

AbnormalityDirection == {"normal", "above_normal", "below_normal"}

RangeThresholds(nmin, nmax, mildmin, mildmax, modmin, modmax, slow, shigh, u) ==
  [normal_min |-> nmin, normal_max |-> nmax, mild_min |-> mildmin, mild_max |-> mildmax,
   moderate_min |-> modmin, moderate_max |-> modmax, severe_low |-> slow,
   severe_high |-> shigh, unit |-> u]

ClassificationResult(s, d, r) == [status |-> s, direction |-> d, reference_range_str |-> r]

\* The literal returned for a code without a table entry.
NoReferenceRange == <<"No reference range available">>

Stress_REFERENCE_RANGES ==
  ("METs" :> RangeThresholds(<<700>>, <<>>, <<500>>, <<>>, <<300>>, <<>>, <<300>>, <<>>, "METs"))
  @@ ("MPHR%" :> RangeThresholds(<<8500>>, <<>>, <<7500>>, <<>>, <<6500>>, <<>>, <<6500>>, <<>>, "%"))
  @@ ("Peak_HR" :> RangeThresholds(<<10000>>, <<22000>>, <<>>, <<>>, <<>>, <<>>, <<>>, <<>>, "bpm"))
  @@ ("Rest_HR" :> RangeThresholds(<<5000>>, <<10000>>, <<>>, <<>>, <<>>, <<>>, <<>>, <<>>, "bpm"))
  @@ ("Peak_SBP" :> RangeThresholds(<<>>, <<21000>>, <<>>, <<23000>>, <<>>, <<25000>>, <<>>, <<25000>>, "mmHg"))
  @@ ("ST_Depression" :> RangeThresholds(<<>>, <<50>>, <<>>, <<100>>, <<>>, <<200>>, <<>>, <<200>>, "mm"))
  @@ ("Exercise_Duration" :> RangeThresholds(<<900>>, <<>>, <<600>>, <<>>, <<300>>, <<>>, <<300>>, <<>>, "min"))
  @@ ("Duke_Score" :> RangeThresholds(<<500>>, <<>>, <<-1000>>, <<>>, <<>>, <<>>, <<-1000>>, <<>>, ""))
  @@ ("RPP" :> RangeThresholds(<<2000000>>, <<3500000>>, <<>>, <<>>, <<>>, <<>>, <<>>, <<>>, ""))

Carotid_REFERENCE_RANGES ==
  ("R_Prox_ICA_PSV" :> RangeThresholds(<<>>, <<12500>>, <<>>, <<12500>>, <<12500>>, <<23000>>, <<>>, <<23000>>, "cm/s"))
  @@ ("R_Mid_ICA_PSV" :> RangeThresholds(<<>>, <<12500>>, <<>>, <<12500>>, <<12500>>, <<23000>>, <<>>, <<23000>>, "cm/s"))
  @@ ("R_Dist_ICA_PSV" :> RangeThresholds(<<>>, <<12500>>, <<>>, <<12500>>, <<12500>>, <<23000>>, <<>>, <<23000>>, "cm/s"))
  @@ ("L_Prox_ICA_PSV" :> RangeThresholds(<<>>, <<12500>>, <<>>, <<12500>>, <<12500>>, <<23000>>, <<>>, <<23000>>, "cm/s"))
  @@ ("L_Mid_ICA_PSV" :> RangeThresholds(<<>>, <<12500>>, <<>>, <<12500>>, <<12500>>, <<23000>>, <<>>, <<23000>>, "cm/s"))
  @@ ("L_Dist_ICA_PSV" :> RangeThresholds(<<>>, <<12500>>, <<>>, <<12500>>, <<12500>>, <<23000>>, <<>>, <<23000>>, "cm/s"))
  @@ ("R_Dist_CCA_PSV" :> RangeThresholds(<<5000>>, <<12000>>, <<>>, <<>>, <<>>, <<>>, <<>>, <<>>, "cm/s"))
  @@ ("R_CCA_PSV" :> RangeThresholds(<<5000>>, <<12000>>, <<>>, <<>>, <<>>, <<>>, <<>>, <<>>, "cm/s"))
  @@ ("L_Dist_CCA_PSV" :> RangeThresholds(<<5000>>, <<12000>>, <<>>, <<>>, <<>>, <<>>, <<>>, <<>>, "cm/s"))
  @@ ("L_CCA_PSV" :> RangeThresholds(<<5000>>, <<12000>>, <<>>, <<>>, <<>>, <<>>, <<>>, <<>>, "cm/s"))
  @@ ("R_Prox_ICA_EDV" :> RangeThresholds(<<>>, <<4000>>, <<>>, <<4000>>, <<4000>>, <<10000>>, <<>>, <<10000>>, "cm/s"))
  @@ ("R_Mid_ICA_EDV" :> RangeThresholds(<<>>, <<4000>>, <<>>, <<4000>>, <<4000>>, <<10000>>, <<>>, <<10000>>, "cm/s"))
  @@ ("R_Dist_ICA_EDV" :> RangeThresholds(<<>>, <<4000>>, <<>>, <<4000>>, <<4000>>, <<10000>>, <<>>, <<10000>>, "cm/s"))
  @@ ("L_Prox_ICA_EDV" :> RangeThresholds(<<>>, <<4000>>, <<>>, <<4000>>, <<4000>>, <<10000>>, <<>>, <<10000>>, "cm/s"))
  @@ ("L_Mid_ICA_EDV" :> RangeThresholds(<<>>, <<4000>>, <<>>, <<4000>>, <<4000>>, <<10000>>, <<>>, <<10000>>, "cm/s"))
  @@ ("L_Dist_ICA_EDV" :> RangeThresholds(<<>>, <<4000>>, <<>>, <<4000>>, <<4000>>, <<10000>>, <<>>, <<10000>>, "cm/s"))
  @@ ("R_ICA_CCA_Ratio" :> RangeThresholds(<<>>, <<200>>, <<>>, <<200>>, <<200>>, <<400>>, <<>>, <<400>>, ""))
  @@ ("L_ICA_CCA_Ratio" :> RangeThresholds(<<>>, <<200>>, <<>>, <<200>>, <<200>>, <<400>>, <<>>, <<400>>, ""))
  @@ ("R_IMT" :> RangeThresholds(<<>>, <<90>>, <<>>, <<120>>, <<>>, <<150>>, <<>>, <<150>>, "mm"))
  @@ ("L_IMT" :> RangeThresholds(<<>>, <<90>>, <<>>, <<120>>, <<>>, <<150>>, <<>>, <<150>>, "mm"))

Coronary_REFERENCE_RANGES ==
  ("RA_mean" :> RangeThresholds(<<0>>, <<800>>, <<>>, <<1200>>, <<>>, <<1600>>, <<>>, <<1600>>, "mmHg"))
  @@ ("RV_systolic" :> RangeThresholds(<<1500>>, <<3000>>, <<>>, <<4000>>, <<>>, <<5500>>, <<>>, <<5500>>, "mmHg"))
  @@ ("RV_diastolic" :> RangeThresholds(<<0>>, <<800>>, <<>>, <<1200>>, <<>>, <<1600>>, <<>>, <<1600>>, "mmHg"))
  @@ ("PA_systolic" :> RangeThresholds(<<1500>>, <<3000>>, <<>>, <<4000>>, <<>>, <<5500>>, <<>>, <<5500>>, "mmHg"))
  @@ ("PA_diastolic" :> RangeThresholds(<<400>>, <<1200>>, <<>>, <<1800>>, <<>>, <<2500>>, <<>>, <<2500>>, "mmHg"))
  @@ ("PA_mean" :> RangeThresholds(<<900>>, <<1800>>, <<>>, <<2500>>, <<>>, <<3500>>, <<>>, <<3500>>, "mmHg"))
  @@ ("PCWP" :> RangeThresholds(<<400>>, <<1200>>, <<>>, <<1800>>, <<>>, <<2500>>, <<>>, <<2500>>, "mmHg"))
  @@ ("AO_systolic" :> RangeThresholds(<<9000>>, <<14000>>, <<8000>>, <<16000>>, <<7000>>, <<18000>>, <<7000>>, <<18000>>, "mmHg"))
  @@ ("AO_diastolic" :> RangeThresholds(<<6000>>, <<9000>>, <<5000>>, <<10000>>, <<4000>>, <<11000>>, <<4000>>, <<11000>>, "mmHg"))
  @@ ("LV_systolic" :> RangeThresholds(<<9000>>, <<14000>>, <<8000>>, <<16000>>, <<7000>>, <<18000>>, <<7000>>, <<18000>>, "mmHg"))
  @@ ("LV_diastolic" :> RangeThresholds(<<0>>, <<1200>>, <<>>, <<1800>>, <<>>, <<2500>>, <<>>, <<2500>>, "mmHg"))
  @@ ("LVEDP" :> RangeThresholds(<<400>>, <<1200>>, <<>>, <<1800>>, <<>>, <<2500>>, <<>>, <<2500>>, "mmHg"))
  @@ ("stenosis_pct" :> RangeThresholds(<<0>>, <<2900>>, <<>>, <<4900>>, <<>>, <<6900>>, <<>>, <<7000>>, "%"))
  @@ ("MLA" :> RangeThresholds(<<400>>, <<>>, <<300>>, <<>>, <<200>>, <<>>, <<200>>, <<>>, "mm2"))

Arterial_REFERENCE_RANGES ==
  ("R_ABI" :> RangeThresholds(<<100>>, <<140>>, <<71>>, <<>>, <<41>>, <<>>, <<40>>, <<>>, ""))
  @@ ("L_ABI" :> RangeThresholds(<<100>>, <<140>>, <<71>>, <<>>, <<41>>, <<>>, <<40>>, <<>>, ""))

Venous_REFERENCE_RANGES ==
  ("R_GSV_Prox_Reflux" :> RangeThresholds(<<>>, <<50000>>, <<>>, <<100000>>, <<>>, <<200000>>, <<>>, <<200000>>, "ms"))
  @@ ("R_GSV_Prox_Diam" :> RangeThresholds(<<>>, <<400>>, <<>>, <<600>>, <<>>, <<800>>, <<>>, <<800>>, "mm"))
  @@ ("L_GSV_Prox_Reflux" :> RangeThresholds(<<>>, <<50000>>, <<>>, <<100000>>, <<>>, <<200000>>, <<>>, <<200000>>, "ms"))
  @@ ("L_GSV_Prox_Diam" :> RangeThresholds(<<>>, <<400>>, <<>>, <<600>>, <<>>, <<800>>, <<>>, <<800>>, "mm"))
  @@ ("R_GSV_Mid_Reflux" :> RangeThresholds(<<>>, <<50000>>, <<>>, <<100000>>, <<>>, <<200000>>, <<>>, <<200000>>, "ms"))
  @@ ("R_GSV_Mid_Diam" :> RangeThresholds(<<>>, <<400>>, <<>>, <<600>>, <<>>, <<800>>, <<>>, <<800>>, "mm"))
  @@ ("L_GSV_Mid_Reflux" :> RangeThresholds(<<>>, <<50000>>, <<>>, <<100000>>, <<>>, <<200000>>, <<>>, <<200000>>, "ms"))
  @@ ("L_GSV_Mid_Diam" :> RangeThresholds(<<>>, <<400>>, <<>>, <<600>>, <<>>, <<800>>, <<>>, <<800>>, "mm"))
  @@ ("R_GSV_Dist_Reflux" :> RangeThresholds(<<>>, <<50000>>, <<>>, <<100000>>, <<>>, <<200000>>, <<>>, <<200000>>, "ms"))
  @@ ("R_GSV_Dist_Diam" :> RangeThresholds(<<>>, <<400>>, <<>>, <<600>>, <<>>, <<800>>, <<>>, <<800>>, "mm"))
  @@ ("L_GSV_Dist_Reflux" :> RangeThresholds(<<>>, <<50000>>, <<>>, <<100000>>, <<>>, <<200000>>, <<>>, <<200000>>, "ms"))
  @@ ("L_GSV_Dist_Diam" :> RangeThresholds(<<>>, <<400>>, <<>>, <<600>>, <<>>, <<800>>, <<>>, <<800>>, "mm"))

\* f"{normal_min}-{normal_max}{unit}" and its variants: a formatted range keeps the
\* relation sign, the bounds and the unit.  `le` is the sign used when only
\* normal_max is set ("<=" in stress and coronary, "<" in the Doppler families).
FormatReferenceRange(rr, le) ==
  IF rr.normal_min # <<>> /\ rr.normal_max # <<>>
    THEN <<"-", rr.normal_min[1], rr.normal_max[1], rr.unit>>
  ELSE IF rr.normal_min # <<>> THEN <<">=", rr.normal_min[1], rr.unit>>
  ELSE IF rr.normal_max # <<>> THEN <<le, rr.normal_max[1], rr.unit>>
  ELSE <<"N/A">>

Stress_format_reference_range(rr) == FormatReferenceRange(rr, "<=")
Carotid_format_reference_range(rr) == FormatReferenceRange(rr, "<")
Coronary_format_reference_range(rr) == FormatReferenceRange(rr, "<=")
Arterial_format_reference_range(rr) == FormatReferenceRange(rr, "<")
Venous_format_reference_range(rr) == FormatReferenceRange(rr, "<")

\* ---- stress (stress/reference_ranges.py)

\* _classify_above without its closing "return SeverityStatus.MILDLY_ABNORMAL".
Stress_classify_above_noDefault(value, rr) ==
  IF rr.severe_high # <<>> /\ value >= rr.severe_high[1] THEN "severely_abnormal"
  ELSE IF rr.moderate_max # <<>> /\ value > rr.moderate_max[1] THEN "severely_abnormal"
  ELSE IF rr.mild_max # <<>> /\ value > rr.mild_max[1] THEN "moderately_abnormal"
  ELSE "none"

Stress_classify_above(value, rr) ==
  IF rr.severe_high # <<>> /\ value >= rr.severe_high[1] THEN "severely_abnormal"
  ELSE IF rr.moderate_max # <<>> /\ value > rr.moderate_max[1] THEN "severely_abnormal"
  ELSE IF rr.mild_max # <<>> /\ value > rr.mild_max[1] THEN "moderately_abnormal"
  ELSE "mildly_abnormal"

Stress_classify_below(value, rr) ==
  IF rr.severe_low # <<>> /\ value <= rr.severe_low[1] THEN "severely_abnormal"
  ELSE IF rr.moderate_min # <<>> /\ value < rr.moderate_min[1] THEN "severely_abnormal"
  ELSE IF rr.mild_min # <<>> /\ value < rr.mild_min[1] THEN "moderately_abnormal"
  ELSE "mildly_abnormal"

\* classify_measurement reading the table with a default entry,
\* REFERENCE_RANGES.get(abbreviation, RangeThresholds()), instead of returning early.
Stress_classify_measurement_defaultEntry(abbreviation, value) ==
  LET rr == IF abbreviation \in DOMAIN Stress_REFERENCE_RANGES
              THEN Stress_REFERENCE_RANGES[abbreviation]
              ELSE RangeThresholds(<<>>, <<>>, <<>>, <<>>, <<>>, <<>>, <<>>, <<>>, "")
      ref_str == Stress_format_reference_range(rr)
  IN IF rr.normal_max # <<>> /\ value > rr.normal_max[1]
       THEN ClassificationResult(Stress_classify_above(value, rr), "above_normal", ref_str)
     ELSE IF rr.normal_min # <<>> /\ value < rr.normal_min[1]
       THEN ClassificationResult(Stress_classify_below(value, rr), "below_normal", ref_str)
     ELSE ClassificationResult("normal", "normal", ref_str)

Stress_classify_measurement(abbreviation, value) ==
  IF abbreviation \notin DOMAIN Stress_REFERENCE_RANGES
    THEN ClassificationResult("undetermined", "normal", NoReferenceRange)
  ELSE LET rr == Stress_REFERENCE_RANGES[abbreviation]
           ref_str == Stress_format_reference_range(rr)
       IN IF rr.normal_max # <<>> /\ value > rr.normal_max[1]
            THEN ClassificationResult(Stress_classify_above(value, rr), "above_normal", ref_str)
          ELSE IF rr.normal_min # <<>> /\ value < rr.normal_min[1]
            THEN ClassificationResult(Stress_classify_below(value, rr), "below_normal", ref_str)
          ELSE ClassificationResult("normal", "normal", ref_str)

\* ---- carotid (carotid/reference_ranges.py)

Carotid_classify_above(value, rr) ==
  IF rr.severe_high # <<>> /\ value >= rr.severe_high[1] THEN "severely_abnormal"
  ELSE IF rr.moderate_max # <<>> /\ value > rr.moderate_max[1] THEN "severely_abnormal"
  ELSE IF rr.mild_max # <<>> /\ value > rr.mild_max[1] THEN "moderately_abnormal"
  ELSE "mildly_abnormal"

Carotid_classify_below(value, rr) ==
  IF rr.severe_low # <<>> /\ value <= rr.severe_low[1] THEN "severely_abnormal"
  ELSE IF rr.moderate_min # <<>> /\ value < rr.moderate_min[1] THEN "severely_abnormal"
  ELSE IF rr.mild_min # <<>> /\ value < rr.mild_min[1] THEN "moderately_abnormal"
  ELSE "mildly_abnormal"

Carotid_classify_measurement(abbreviation, value) ==
  IF abbreviation \notin DOMAIN Carotid_REFERENCE_RANGES
    THEN ClassificationResult("undetermined", "normal", NoReferenceRange)
  ELSE LET rr == Carotid_REFERENCE_RANGES[abbreviation]
           ref_str == Carotid_format_reference_range(rr)
       IN IF rr.normal_max # <<>> /\ value > rr.normal_max[1]
            THEN ClassificationResult(Carotid_classify_above(value, rr), "above_normal", ref_str)
          ELSE IF rr.normal_min # <<>> /\ value < rr.normal_min[1]
            THEN ClassificationResult(Carotid_classify_below(value, rr), "below_normal", ref_str)
          ELSE ClassificationResult("normal", "normal", ref_str)

\* ---- coronary diagram (coronary_diagram/reference_ranges.py); the gender
\* argument is accepted and never read.

\* The upper tiers with the mild and moderate bands exchanged.
Coronary_classify_above_nearIsWorse(value, rr) ==
  IF rr.severe_high # <<>> /\ value >= rr.severe_high[1] THEN "severely_abnormal"
  ELSE IF rr.moderate_max # <<>> /\ value > rr.moderate_max[1] THEN "severely_abnormal"
  ELSE IF rr.mild_max # <<>> /\ value > rr.mild_max[1] THEN "mildly_abnormal"
  ELSE "moderately_abnormal"

Coronary_classify_above(value, rr) ==
  IF rr.severe_high # <<>> /\ value >= rr.severe_high[1] THEN "severely_abnormal"
  ELSE IF rr.moderate_max # <<>> /\ value > rr.moderate_max[1] THEN "severely_abnormal"
  ELSE IF rr.mild_max # <<>> /\ value > rr.mild_max[1] THEN "moderately_abnormal"
  ELSE "mildly_abnormal"

Coronary_classify_below(value, rr) ==
  IF rr.severe_low # <<>> /\ value <= rr.severe_low[1] THEN "severely_abnormal"
  ELSE IF rr.moderate_min # <<>> /\ value < rr.moderate_min[1] THEN "severely_abnormal"
  ELSE IF rr.mild_min # <<>> /\ value < rr.mild_min[1] THEN "moderately_abnormal"
  ELSE "mildly_abnormal"

Coronary_classify_measurement(abbreviation, value) ==
  IF abbreviation \notin DOMAIN Coronary_REFERENCE_RANGES
    THEN ClassificationResult("undetermined", "normal", NoReferenceRange)
  ELSE LET rr == Coronary_REFERENCE_RANGES[abbreviation]
           ref_str == Coronary_format_reference_range(rr)
       IN IF rr.normal_max # <<>> /\ value > rr.normal_max[1]
            THEN ClassificationResult(Coronary_classify_above(value, rr), "above_normal", ref_str)
          ELSE IF rr.normal_min # <<>> /\ value < rr.normal_min[1]
            THEN ClassificationResult(Coronary_classify_below(value, rr), "below_normal", ref_str)
          ELSE ClassificationResult("normal", "normal", ref_str)

\* ---- arterial (arterial/reference_ranges.py): above normal is always mild,
\* below normal is graded inline.

Arterial_classify_measurement(abbreviation, value) ==
  IF abbreviation \notin DOMAIN Arterial_REFERENCE_RANGES
    THEN ClassificationResult("undetermined", "normal", NoReferenceRange)
  ELSE LET rr == Arterial_REFERENCE_RANGES[abbreviation]
           ref_str == Arterial_format_reference_range(rr)
       IN IF rr.normal_max # <<>> /\ value > rr.normal_max[1]
            THEN ClassificationResult("mildly_abnormal", "above_normal", ref_str)
          ELSE IF rr.normal_min # <<>> /\ value < rr.normal_min[1]
            THEN ClassificationResult(
                   IF rr.severe_low # <<>> /\ value <= rr.severe_low[1] THEN "severely_abnormal"
                   ELSE IF rr.moderate_min # <<>> /\ value < rr.moderate_min[1]
                     THEN "severely_abnormal"
                   ELSE IF rr.mild_min # <<>> /\ value < rr.mild_min[1]
                     THEN "moderately_abnormal"
                   ELSE "mildly_abnormal",
                   "below_normal", ref_str)
          ELSE ClassificationResult("normal", "normal", ref_str)

\* ---- venous (venous/reference_ranges.py): above normal is graded inline,
\* below normal is always mild.

Venous_classify_measurement(abbreviation, value) ==
  IF abbreviation \notin DOMAIN Venous_REFERENCE_RANGES
    THEN ClassificationResult("undetermined", "normal", NoReferenceRange)
  ELSE LET rr == Venous_REFERENCE_RANGES[abbreviation]
           ref_str == Venous_format_reference_range(rr)
       IN IF rr.normal_max # <<>> /\ value > rr.normal_max[1]
            THEN ClassificationResult(
                   IF rr.severe_high # <<>> /\ value >= rr.severe_high[1] THEN "severely_abnormal"
                   ELSE IF rr.moderate_max # <<>> /\ value > rr.moderate_max[1]
                     THEN "severely_abnormal"
                   ELSE IF rr.mild_max # <<>> /\ value > rr.mild_max[1]
                     THEN "moderately_abnormal"
                   ELSE "mildly_abnormal",
                   "above_normal", ref_str)
          ELSE IF rr.normal_min # <<>> /\ value < rr.normal_min[1]
            THEN ClassificationResult("mildly_abnormal", "below_normal", ref_str)
          ELSE ClassificationResult("normal", "normal", ref_str)

\* ---- the classifier as the handlers call it

Families == {"stress", "carotid", "coronary", "arterial", "venous"}

ReferenceRanges(family) ==
  CASE family = "stress"   -> Stress_REFERENCE_RANGES
    [] family = "carotid"  -> Carotid_REFERENCE_RANGES
    [] family = "coronary" -> Coronary_REFERENCE_RANGES
    [] family = "arterial" -> Arterial_REFERENCE_RANGES
    [] family = "venous"   -> Venous_REFERENCE_RANGES

\* Codes no family's table holds (test_echo_handler.py classifies "UNKNOWN").
UnknownCodes == {"UNKNOWN", ""}

\* How far around each cutoff the probe values reach, in hundredths.
ProbeSpread == 2

Cutoffs(rr) ==
  UNION {Range(rr[f]) : f \in {"normal_min", "normal_max", "mild_min", "mild_max",
                                "moderate_min", "moderate_max", "severe_low", "severe_high"}}

\* Values on, just below and just above every cutoff of the code, and two values
\* that are no cutoff of any code.
ProbeValues(family, code) ==
  IF code \in DOMAIN ReferenceRanges(family)
    THEN UNION {(c - ProbeSpread)..(c + ProbeSpread) : c \in Cutoffs(ReferenceRanges(family)[code])}
           \cup {0, 4200}
    ELSE ((0 - ProbeSpread)..ProbeSpread) \cup {4200}

Call(family, code, value, res) ==
  [family |-> family, abbreviation |-> code, value |-> value, result |-> res]

NoCall == Call("none", "", 0, ClassificationResult("undetermined", "normal", <<>>))

StressClassify ==
  \E code \in DOMAIN Stress_REFERENCE_RANGES \cup UnknownCodes :
    \E v \in ProbeValues("stress", code) :
      /\ cls' = Call("stress", code, v, Stress_classify_measurement(code, v))
      /\ UNCHANGED <<vars_pipe, vars_labs, vars_reg, vars_ext>>

CarotidClassify ==
  \E code \in DOMAIN Carotid_REFERENCE_RANGES \cup UnknownCodes :
    \E v \in ProbeValues("carotid", code) :
      /\ cls' = Call("carotid", code, v, Carotid_classify_measurement(code, v))
      /\ UNCHANGED <<vars_pipe, vars_labs, vars_reg, vars_ext>>

CoronaryClassify ==
  \E code \in DOMAIN Coronary_REFERENCE_RANGES \cup UnknownCodes :
    \E v \in ProbeValues("coronary", code) :
      /\ cls' = Call("coronary", code, v, Coronary_classify_measurement(code, v))
      /\ UNCHANGED <<vars_pipe, vars_labs, vars_reg, vars_ext>>

ArterialClassify ==
  \E code \in DOMAIN Arterial_REFERENCE_RANGES \cup UnknownCodes :
    \E v \in ProbeValues("arterial", code) :
      /\ cls' = Call("arterial", code, v, Arterial_classify_measurement(code, v))
      /\ UNCHANGED <<vars_pipe, vars_labs, vars_reg, vars_ext>>

VenousClassify ==
  \E code \in DOMAIN Venous_REFERENCE_RANGES \cup UnknownCodes :
    \E v \in ProbeValues("venous", code) :
      /\ cls' = Call("venous", code, v, Venous_classify_measurement(code, v))
      /\ UNCHANGED <<vars_pipe, vars_labs, vars_reg, vars_ext>>

----------------------------------------------------------------------------
\* Page-type detector (extraction/detector.py)

TEXT_CHAR_THRESHOLD == 50

\* _MIN_PRINTABLE_RATIO = 0.70, in hundredths.
MIN_PRINTABLE_RATIO_PCT == 70

\* is_real_text: char_count >= TEXT_CHAR_THRESHOLD and ratio >= _MIN_PRINTABLE_RATIO,
\* where ratio = printable / char_count (0.0 for an empty page).
\* is_real_text with a strict comparison against TEXT_CHAR_THRESHOLD.
IsRealText_strictThreshold(char_count, printable) ==
  /\ char_count > TEXT_CHAR_THRESHOLD
  /\ 100 * printable >= MIN_PRINTABLE_RATIO_PCT * char_count

IsRealText(char_count, printable) ==
  /\ char_count >= TEXT_CHAR_THRESHOLD
  /\ char_count > 0
  /\ 100 * printable >= MIN_PRINTABLE_RATIO_PCT * char_count

\* The page confidence in thousandths, as round(max(0.0, min(1.0, confidence)), 3).
DetectConfidence(char_count, printable) ==
  LET raw ==
        IF IsRealText(char_count, printable)
          THEN \* min(1.0, char_count / 200) * min(1.0, ratio / 0.9)
               RoundDiv(1000 * Min(200, char_count) * Min(9 * char_count, 10 * printable),
                        200 * 9 * char_count)
        ELSE IF char_count < TEXT_CHAR_THRESHOLD
          THEN 1000 - 20 * char_count          \* 1.0 - char_count / 50
        ELSE RoundDiv(1000 * (char_count - printable), char_count)   \* 1.0 - ratio
  IN Max(0, Min(1000, raw))

\* One iteration of the loop of PDFDetector.detect over page i (0-based).
PageDetection(i, page) ==
  [page_number |-> i + 1,
   page_type   |-> IF IsRealText(page.chars, page.printable) THEN "TEXT" ELSE "SCANNED",
   char_count  |-> page.chars,
   confidence  |-> DetectConfidence(page.chars, page.printable)]

_classify_overall(pages) ==
  IF Len(pages) = 0 THEN "SCANNED"
  ELSE LET text_count == Cardinality({i \in DOMAIN pages : pages[i].page_type = "TEXT"})
       IN IF text_count = Len(pages) THEN "TEXT"
          ELSE IF text_count = 0 THEN "SCANNED"
          ELSE "MIXED"

----------------------------------------------------------------------------
\* Text extractor (extraction/text_extractor.py)

FALLBACK_CHAR_THRESHOLD == 20

\* A PageExtractionResult.  Text is the sequence of its whitespace-separated words;
\* confidence is in thousandths.
PageExtractionResult(n, text, method, conf, chars) ==
  [page_number |-> n, text |-> text, extraction_method |-> method,
   confidence |-> conf, char_count |-> chars]

\* TextExtractor.extract_pages: pdfplumber first; a page with fewer than
\* FALLBACK_CHAR_THRESHOLD characters is read again with PyMuPDF and the longer
\* text wins.  page.quality is _score_text_quality of the page's text.
TextExtractor_extract_pages(doc, page_numbers) ==
  [k \in DOMAIN page_numbers |->
     LET n == page_numbers[k]
         page == doc[n]
         plumber == PageExtractionResult(n, page.text, "pdfplumber", page.quality, page.raw_chars)
         mu == PageExtractionResult(n, page.mu_text, "pymupdf", page.quality, page.mu_chars)
     IN IF plumber.char_count < FALLBACK_CHAR_THRESHOLD /\ mu.char_count > plumber.char_count
          THEN mu ELSE plumber]

----------------------------------------------------------------------------
\* OCR extractor (extraction/ocr_extractor.py)

\* Length of a text given as its words, joined by single blanks.
RECURSIVE WordChars(_)
WordChars(words) ==
  IF words = <<>> THEN 0 ELSE Len(Head(words)) + WordChars(Tail(words))

CharCount(words) == IF words = <<>> THEN 0 ELSE WordChars(words) + Len(words) - 1

\* The entries of _MEDICAL_OCR_CORRECTIONS that the modelled vocabulary can hit;
\* each is a whole-word substitution.
CorrectWord(w) ==
  CASE w = "HbAlc" -> "HbA1c"
    [] w = "mg/dI" -> "mg/dL"
    [] w = "Reci"  -> "Red"
    [] OTHER       -> w

_apply_medical_corrections(text) == [i \in DOMAIN text |-> CorrectWord(text[i])]

\* confidences = [int(c) for c in data["conf"] if ... int(c) > 0]
PositiveConf(conf) == SelectSeq(conf, LAMBDA c : c > 0)

RECURSIVE SumSeq(_)
SumSeq(s) == IF s = <<>> THEN 0 ELSE Head(s) + SumSeq(Tail(s))

GOOD_ENOUGH_PCT == 60

\* The loop without the early stop: every mode is tried.
RECURSIVE PsmLoop_noEarlyStop(_, _, _, _, _)
PsmLoop_noEarlyStop(run, i, best_text, best_num, best_den) ==
  IF i > Len(run)
    THEN [raised |-> FALSE, text |-> best_text, num |-> best_num, den |-> best_den, tried |-> i - 1]
  ELSE IF run[i].raises
    THEN [raised |-> TRUE, text |-> <<>>, num |-> 0, den |-> 1, tried |-> i]
  ELSE LET confidences == PositiveConf(run[i].conf)
           num == SumSeq(confidences)
           den == IF confidences = <<>> THEN 1 ELSE Len(confidences)
           better == num * best_den > best_num * den
       IN PsmLoop_noEarlyStop(run, i + 1, IF better THEN run[i].text ELSE best_text,
                              IF better THEN num ELSE best_num,
                              IF better THEN den ELSE best_den)

\* The loop of _ocr_with_best_psm over _PSM_MODES = [6, 3, 4], from mode index i.
\* A confidence is the fraction num/den of 100 (avg_conf = num / den / 100.0).
\* `run` holds the engine's answer per mode; an answer that raises ends the call.
RECURSIVE PsmLoop(_, _, _, _, _)
PsmLoop(run, i, best_text, best_num, best_den) ==
  IF i > Len(run)
    THEN [raised |-> FALSE, text |-> best_text, num |-> best_num, den |-> best_den, tried |-> i - 1]
  ELSE IF run[i].raises
    THEN [raised |-> TRUE, text |-> <<>>, num |-> 0, den |-> 1, tried |-> i]
  ELSE LET confidences == PositiveConf(run[i].conf)
           num == SumSeq(confidences)
           den == IF confidences = <<>> THEN 1 ELSE Len(confidences)
           better == num * best_den > best_num * den          \* avg_conf > best_conf
           t == IF better THEN run[i].text ELSE best_text
           n == IF better THEN num ELSE best_num
           d == IF better THEN den ELSE best_den
       IN IF num >= GOOD_ENOUGH_PCT * den                      \* avg_conf >= 0.6: break
            THEN [raised |-> FALSE, text |-> t, num |-> n, den |-> d, tried |-> i]
            ELSE PsmLoop(run, i + 1, t, n, d)

_ocr_with_best_psm(run) ==
  LET r == PsmLoop(run, 1, <<>>, 0, 1)
  IN IF r.raised THEN r
     ELSE [r EXCEPT !.text = IF r.text # <<>> THEN _apply_medical_corrections(r.text) ELSE r.text]

_empty_result(page_num) == PageExtractionResult(page_num, <<>>, "ocr", 0, 0)

\* extract_pages with the try/except around each PSM mode instead of around the
\* page: a mode that raises is skipped and the best earlier answer is returned.
OcrOnePage_catchPerMode(page_num, page) ==
  IF page.ocr.stage \in {"raster_raise", "no_images", "preprocess_raise"}
    THEN _empty_result(page_num)
  ELSE LET r == _ocr_with_best_psm(SelectSeq(page.ocr.run, LAMBDA a : ~a.raises))
       IN PageExtractionResult(page_num, r.text, "ocr", RoundDiv(10 * r.num, r.den),
                               CharCount(r.text))

\* One iteration of the loop of OCRExtractor.extract_pages: everything that can go
\* wrong for the page is caught and turned into _empty_result.
OcrOnePage(page_num, page) ==
  IF page.ocr.stage \in {"raster_raise", "no_images", "preprocess_raise"}
    THEN _empty_result(page_num)
  ELSE LET r == _ocr_with_best_psm(page.ocr.run)
       IN IF r.raised THEN _empty_result(page_num)
          ELSE PageExtractionResult(page_num, r.text, "ocr",
                                    RoundDiv(10 * r.num, r.den),   \* round(avg_confidence, 3)
                                    CharCount(r.text))

----------------------------------------------------------------------------
\* Extraction pipeline (extraction/pipeline.py, extract_from_pdf)

\* A warning of extract_from_pdf: the page it names (0 for the document) and
\* the phrase it carries.
Warning(page_number, phrase) == [page |-> page_number, phrase |-> phrase]

\* The warning the loop over ocr_results adds for one result, if any.
OcrWarnings(r) ==
  IF r.confidence < 300 THEN <<Warning(r.page_number, "very low OCR confidence")>>
  ELSE IF r.confidence < 500 THEN <<Warning(r.page_number, "low OCR confidence")>>
  ELSE <<>>

\* The loop "for r in ocr_results" over the whole list.
RECURSIVE WarningsFor(_)
WarningsFor(rs) == IF rs = <<>> THEN <<>> ELSE OcrWarnings(Head(rs)) \o WarningsFor(Tail(rs))

\* list.sort(key=page_number): a stable insertion sort.
RECURSIVE InsertByPage(_, _)
InsertByPage(r, sorted) ==
  IF sorted = <<>> THEN <<r>>
  ELSE IF r.page_number < Head(sorted).page_number THEN <<r>> \o sorted
  ELSE <<Head(sorted)>> \o InsertByPage(r, Tail(sorted))

\* page_results left in delivery order (the sort of line 82 missing).
SortByPage_deliveryOrder(s) == s

RECURSIVE SortByPage(_)
SortByPage(s) ==
  IF s = <<>> THEN <<>>
  ELSE InsertByPage(s[Len(s)], SortByPage(SubSeq(s, 1, Len(s) - 1)))

\* "\n\n".join(r.text for r in page_results if r.text)
RECURSIVE JoinTexts(_)
JoinTexts(rs) ==
  IF rs = <<>> THEN <<>>
  ELSE LET rest == JoinTexts(Tail(rs))
       IN IF Head(rs).text = <<>> THEN rest
          ELSE IF rest = <<>> THEN Head(rs).text
          ELSE Head(rs).text \o <<"\n\n">> \o rest

\* len(full_text): the page texts and the two-character separators between them.
JoinedChars(rs) ==
  LET kept == SelectSeq(rs, LAMBDA r : r.text # <<>>)
      lens == [k \in DOMAIN kept |-> CharCount(kept[k].text)]
  IN IF kept = <<>> THEN 0 ELSE SumSeq(lens) + 2 * (Len(kept) - 1)

PagesOfType(pages, type) ==
  LET sel == SelectSeq(pages, LAMBDA p : p.page_type = type)
  IN [k \in DOMAIN sel |-> sel[k].page_number]

text_pages == PagesOfType(detection, "TEXT")
scanned_pages == PagesOfType(detection, "SCANNED")

NoResult == [assembled |-> FALSE, full_text |-> <<>>, pages |-> <<>>, warnings |-> <<>>,
             overall_type |-> "SCANNED", total_pages |-> 0, total_chars |-> 0]

\* PDFDetector.detect, one page per step.
DetectPage ==
  /\ pc = "detect"
  /\ Len(detection) < Len(pdf)
  /\ detection' = Append(detection, PageDetection(Len(detection), pdf[Len(detection) + 1]))
  /\ UNCHANGED <<pdf, pc, page_results, ocr_results, warnings, result, vars_cls, vars_labs, vars_reg, vars_ext>>

\* Steps 1-2: detection is complete; text pages go to the text extractor.
ExtractText ==
  /\ pc = "detect"
  /\ Len(detection) = Len(pdf)
  /\ page_results' = IF text_pages # <<>>
                       THEN page_results \o TextExtractor_extract_pages(pdf, text_pages)
                       ELSE page_results
  /\ pc' = "ocr"
  /\ UNCHANGED <<pdf, detection, ocr_results, warnings, result, vars_cls, vars_labs, vars_reg, vars_ext>>

\* OCRExtractor.extract_pages, one scanned page per step.
OcrPage ==
  /\ pc = "ocr"
  /\ Len(ocr_results) < Len(scanned_pages)
  /\ LET n == scanned_pages[Len(ocr_results) + 1]
     IN ocr_results' = Append(ocr_results, OcrOnePage(n, pdf[n]))
  /\ UNCHANGED <<pdf, pc, detection, page_results, warnings, result, vars_cls, vars_labs, vars_reg, vars_ext>>

\* page_results.extend(ocr_results) and the confidence warnings.
CollectOcr ==
  /\ pc = "ocr"
  /\ Len(ocr_results) = Len(scanned_pages)
  /\ page_results' = page_results \o ocr_results
  /\ warnings' = warnings \o WarningsFor(ocr_results)
  /\ pc' = "assemble"
  /\ UNCHANGED <<pdf, detection, ocr_results, result, vars_cls, vars_labs, vars_reg, vars_ext>>

\* page_results.sort, the full text, the "no text" warning and the result.
Assemble ==
  /\ pc = "assemble"
  /\ LET sorted == SortByPage(page_results)
         full_text == JoinTexts(sorted)
         w == IF full_text = <<>>
                THEN Append(warnings, Warning(0, "No text could be extracted from this PDF."))
                ELSE warnings
     IN /\ page_results' = sorted
        /\ warnings' = w
        /\ result' = [assembled |-> TRUE, full_text |-> full_text, pages |-> sorted,
                      warnings |-> w, overall_type |-> _classify_overall(detection),
                      total_pages |-> Len(detection), total_chars |-> JoinedChars(sorted)]
  /\ pc' = "done"
  /\ UNCHANGED <<pdf, detection, ocr_results, vars_cls, vars_labs, vars_reg, vars_ext>>

\* ---- the documents the pipeline is run on

MaxPages == 2

PsmAnswer(conf, text) == [raises |-> FALSE, conf |-> conf, text |-> text]
PsmRaises == [raises |-> TRUE, conf |-> <<>>, text |-> <<>>]

OcrRun(a, b, c) == [stage |-> "ocr", run |-> <<a, b, c>>]
OcrStage(s) == [stage |-> s, run |-> <<>>]

\* What rasterising, preprocessing and recognising a scanned page can do.
OcrOutcomes ==
  { OcrStage("raster_raise"), OcrStage("no_images"), OcrStage("preprocess_raise"),
    \* block-of-text is good enough: the other modes are not tried
    OcrRun(PsmAnswer(<<96, 90, -1>>, <<"HbAlc", "6", "mg/dI">>),
           PsmAnswer(<<99>>, <<"Reci">>), PsmRaises),
    \* no mode is good enough: the best of the three (0.45) is kept
    OcrRun(PsmAnswer(<<25>>, <<"x#">>), PsmAnswer(<<45, 0>>, <<"Reci", "cell">>),
           PsmAnswer(<<40>>, <<"zz%k">>)),
    \* 49.97 % on average: 0.4997 before rounding, 0.500 after
    OcrRun(PsmAnswer([i \in 1..30 |-> IF i = 1 THEN 49 ELSE 50], <<"Glucose", "90">>),
           PsmAnswer(<<10>>, <<"x#">>), PsmAnswer(<<-1>>, <<>>)),
    \* the second mode raises after the first was not good enough
    OcrRun(PsmAnswer(<<50>>, <<"WBC", "7">>), PsmRaises, PsmAnswer(<<90>>, <<"WBC", "7">>)),
    \* ten garbled characters read with high confidence
    OcrRun(PsmAnswer(<<80, 82>>, <<"x#@!q", "zz%k">>), PsmAnswer(<<10>>, <<"x#">>),
           PsmAnswer(<<10>>, <<"x#">>)),
    \* ten garbled characters read with low confidence
    OcrRun(PsmAnswer(<<20, 20>>, <<"x#@!q", "zz%k">>), PsmAnswer(<<10>>, <<"x#">>),
           PsmAnswer(<<15>>, <<"x#">>)),
    \* text is recognised but no token has a positive confidence
    OcrRun(PsmAnswer(<<-1, 0>>, <<"faint">>), PsmAnswer(<<0>>, <<"faint">>),
           PsmAnswer(<<>>, <<"faint">>)) }

Page(chars, printable, text, raw_chars, quality, ocr) ==
  [chars |-> chars, printable |-> printable, text |-> text, raw_chars |-> raw_chars,
   quality |-> quality, mu_text |-> text, mu_chars |-> raw_chars, ocr |-> ocr]

\* Pages with a usable text layer, on and above both thresholds.
TextLayerPages ==
  { Page(50, 35, <<"LVEF", "55">>, 50, 720, OcrStage("no_images")),
    Page(200, 200, <<"Glucose", "90", "mg/dL">>, 201, 960, OcrStage("no_images")) }

\* Pages without one: blank, one character short, or garbled.
ScannedLayerPages ==
  {Page(0, 0, <<>>, 0, 0, o) : o \in OcrOutcomes}
    \cup { Page(49, 49, <<"short">>, 49, 900, OcrStage("raster_raise")),
           Page(50, 34, <<"x#@!q">>, 50, 170, OcrStage("no_images")),
           Page(120, 83, <<"x#@!q">>, 120, 340,
                OcrRun(PsmAnswer(<<70>>, <<"Reci", "cell">>), PsmRaises, PsmRaises)) }

Pages == TextLayerPages \cup ScannedLayerPages

Documents == UNION {[1..n -> Pages] : n \in 0..MaxPages}

----------------------------------------------------------------------------
\* Idle values of each component, used by the specifications of the others.

IdleCls == cls = NoCall

IdlePipe ==
  /\ pdf = <<>>
  /\ pc = "idle"
  /\ detection = <<>>
  /\ page_results = <<>>
  /\ ocr_results = <<>>
  /\ warnings = <<>>
  /\ result = NoResult

IdleLabs ==
  /\ lab_in = <<>>
  /\ lab_pc = "idle"
  /\ lab_results = <<>>
  /\ lab_seen = {}
  /\ lab_out = <<>>

\* No detect call has been made.
NoDet ==
  [called |-> FALSE,
   doc |-> [lines |-> <<>>, answers |-> <<>>, subtype |-> ""],
   header |-> [id |-> <<>>, confidence |-> 0],
   scores |-> <<>>, adjusted |-> <<>>, sorted |-> <<>>, reads |-> <<>>,
   result |-> [id |-> <<>>, confidence |-> 0, raised |-> FALSE]]

IdleReg ==
  /\ correction_cache = {}
  /\ cache_ts = 0
  /\ now = 0
  /\ db_rows = {}
  /\ refresh_pc = 0
  /\ loaded = {{}}
  /\ det = NoDet

\* No table extraction has been asked for.
NoTableCall == [src |-> "none", input |-> <<>>, pc |-> "idle", tables |-> <<>>]

IdleTab == tab = NoTableCall

NoRequest == [route |-> "none", input |-> <<>>, pc |-> "idle",
              tmp |-> "none", response |-> [status_code |-> 200, detail |-> ""],
              work |-> FALSE]

IdleReq == req = NoRequest

NoParseCall == [handler |-> "none", doc |-> <<>>, gender |-> <<>>, pc |-> "idle", out |-> <<>>]

IdleRep == rep = NoParseCall

NoEchoCall == [text |-> <<>>, pc |-> "idle", results |-> <<>>]

IdleEcho == echo = NoEchoCall

NoMultiCall ==
  [doc |-> [lines |-> <<>>, answers |-> <<>>, subtype |-> ""], cache |-> {}, threshold |-> 0,
   pc |-> "idle", listed |-> <<>>,
   detected |-> [id |-> <<>>, confidence |-> 0, raised |-> FALSE], response |-> "none"]

IdleMulti == multi = NoMultiCall

\* No keyword has been weighted.
NoZoneCall == [parts |-> <<>>, pc |-> "idle", title |-> FALSE, comparison |-> FALSE,
               body |-> FALSE, weight |-> 0]

IdleZone == zone = NoZoneCall

\* No page has been handed to _ocr_with_best_psm.
NoPsmCall == [run |-> <<>>, pc |-> "idle",
              out |-> [raised |-> FALSE, text |-> <<>>, num |-> 0, den |-> 1, tried |-> 0]]

IdlePsm == psm = NoPsmCall

IdleExt == IdleTab /\ IdleReq /\ IdleRep /\ IdleEcho /\ IdleMulti /\ IdleZone /\ IdlePsm

----------------------------------------------------------------------------
\* Specification of the classifiers

InitClassify == IdleCls /\ IdlePipe /\ IdleLabs /\ IdleReg /\ IdleExt

NextClassify ==
  \/ StressClassify
  \/ CarotidClassify
  \/ CoronaryClassify
  \/ ArterialClassify
  \/ VenousClassify

SpecClassify == InitClassify /\ [][NextClassify]_vars

----------------------------------------------------------------------------
\* Specification of the extraction pipeline

InitPipeline ==
  /\ pdf \in Documents
  /\ pc = "detect"
  /\ detection = <<>>
  /\ page_results = <<>>
  /\ ocr_results = <<>>
  /\ warnings = <<>>
  /\ result = NoResult
  /\ IdleCls /\ IdleLabs /\ IdleReg /\ IdleExt

NextPipeline ==
  \/ DetectPage
  \/ ExtractText
  \/ OcrPage
  \/ CollectOcr
  \/ Assemble

SpecPipeline == InitPipeline /\ [][NextPipeline]_vars

----------------------------------------------------------------------------
\* Properties of the page-type detector

\* C2: a page is typed TEXT if and only if its trimmed character count is at
\* least 50 and its printable ratio is at least 0.70; otherwise it is SCANNED.
C2_TextIffCountAndRatio ==
  \A i \in DOMAIN detection :
    /\ detection[i].page_type \in {"TEXT", "SCANNED"}
    /\ detection[i].page_type = "TEXT"
         <=> (pdf[i].chars >= 50 /\ 100 * pdf[i].printable >= 70 * pdf[i].chars)

\* A page exactly on both thresholds typed TEXT next to one a character short.
C2_Witness ==
  \E i, j \in DOMAIN detection :
    /\ pdf[i].chars = 50 /\ pdf[i].printable = 35 /\ detection[i].page_type = "TEXT"
    /\ pdf[j].chars = 49 /\ detection[j].page_type = "SCANNED"

----------------------------------------------------------------------------
\* Properties of the reference-range classifiers

Called == cls.family \in Families

\* C3: every classifier call, on or off a cutoff and for codes with undefined
\* cutoffs, yields exactly one of the five severity tiers and one direction, and
\* the tier is "normal" or "undetermined" exactly when the direction is "normal".
C3_ClassifyTotal ==
  Called =>
    /\ cls.result.status \in SeverityStatus
    /\ cls.result.direction \in AbnormalityDirection
    /\ cls.result.direction = "normal" <=> cls.result.status \in {"normal", "undetermined"}

\* Peak_HR declares only its normal range; 220 bpm is exactly its upper cutoff.
C3_Witness ==
  /\ cls.family = "stress" /\ cls.abbreviation = "Peak_HR" /\ cls.value = 22000
  /\ cls.result.status = "normal"

UnknownCode == Called /\ cls.abbreviation \notin DOMAIN ReferenceRanges(cls.family)

\* C4 as stated: a code absent from the family's table is UNDETERMINED and
\* carries no reference-range string.
C4_UnknownHasNoRangeString ==
  UnknownCode => cls.result.status = "undetermined" /\ Len(cls.result.reference_range_str) = 0

\* C4 as amended: a code absent from the family's table is UNDETERMINED, in
\* direction NORMAL, and carries the placeholder "No reference range available"
\* as its reference-range string.
C4_UnknownIsUndetermined ==
  UnknownCode =>
    /\ cls.result.status = "undetermined"
    /\ cls.result.direction = "normal"
    /\ cls.result.reference_range_str = <<"No reference range available">>

C4_Witness ==
  /\ cls.family = "stress" /\ cls.abbreviation = "UNKNOWN" /\ cls.value = 4200
  /\ cls.result.status = "undetermined"

----------------------------------------------------------------------------
\* Properties of the extraction pipeline

\* The result of page n among rs.
ResultOf(rs, n) == CHOOSE r \in Range(rs) : r.page_number = n

\* The non-empty page texts of rs, taken by page number 1, 2, ... up to n.
RECURSIVE TextsUpTo(_, _)
TextsUpTo(rs, n) ==
  IF n = 0 THEN <<>>
  ELSE LET before == TextsUpTo(rs, n - 1)
           t == IF \E r \in Range(rs) : r.page_number = n THEN ResultOf(rs, n).text ELSE <<>>
       IN IF t = <<>> THEN before
          ELSE IF before = <<>> THEN t
          ELSE before \o <<"\n\n">> \o t

\* C8: the assembled page list has one entry per page in ascending page number
\* and the full text is the non-empty page texts in that order.
C8_PagesAscendingTextInOrder ==
  result.assembled =>
    /\ Len(result.pages) = Len(pdf)
    /\ \A k \in DOMAIN result.pages : result.pages[k].page_number = k
    /\ result.full_text = TextsUpTo(page_results, Len(pdf))

\* A scanned first page and a text second page, both with text: the OCR result
\* is delivered after the text result and has to move in front of it.
C8_Witness ==
  /\ result.assembled
  /\ Len(pdf) >= 2
  /\ detection[1].page_type = "SCANNED" /\ detection[2].page_type = "TEXT"
  /\ result.pages[1].text # <<>> /\ result.pages[2].text # <<>>

\* avg_conf >= 0.6 for one engine answer.
GoodEnough(a) ==
  LET c == PositiveConf(a.conf)
  IN c # <<>> /\ SumSeq(c) >= 60 * Len(c)

\* Rasterization, preprocessing or recognition fails for the page.
OcrFails(page) ==
  \/ page.ocr.stage \in {"raster_raise", "no_images", "preprocess_raise"}
  \/ \E m \in DOMAIN page.ocr.run :
       /\ page.ocr.run[m].raises
       /\ \A k \in 1..(m - 1) : ~GoodEnough(page.ocr.run[k])

\* C9: the OCR extractor returns one result per requested page, in request
\* order; a page whose OCR fails has empty text and confidence 0.0, and any
\* other page has the text the engine read for that very page.
C9_OcrFailureIsPageLocal ==
  /\ Len(ocr_results) <= Len(scanned_pages)
  /\ pc \in {"assemble", "done"} => Len(ocr_results) = Len(scanned_pages)
  /\ \A k \in DOMAIN ocr_results :
       LET n == scanned_pages[k]
           r == ocr_results[k]
       IN /\ r.page_number = n
          /\ OcrFails(pdf[n]) => r.text = <<>> /\ r.confidence = 0 /\ r.char_count = 0
          /\ ~OcrFails(pdf[n]) =>
               \/ r.text = <<>> /\ r.confidence = 0
               \/ \E m \in DOMAIN pdf[n].ocr.run :
                    /\ ~pdf[n].ocr.run[m].raises
                    /\ r.text = _apply_medical_corrections(pdf[n].ocr.run[m].text)
                    /\ r.confidence > 0

\* Recognition of the first scanned page raises in its second mode and the
\* second scanned page is read nonetheless.
C9_Witness ==
  /\ Len(ocr_results) = 2
  /\ pdf[scanned_pages[1]].ocr.stage = "ocr" /\ OcrFails(pdf[scanned_pages[1]])
  /\ ocr_results[1].text = <<>>
  /\ ocr_results[2].text # <<>> /\ ocr_results[2].confidence > 0

GarbledWords == {"x#@!q", "zz%k", "x#"}

\* The OCR result is ten characters or fewer of garbled text.
ShortGarbled(r) ==
  /\ r.text # <<>>
  /\ r.char_count <= 10
  /\ Range(r.text) \subseteq GarbledWords

LowOcrConfidenceWarning(n) ==
  \E k \in DOMAIN result.warnings :
    /\ result.warnings[k].page = n
    /\ result.warnings[k].phrase \in {"low OCR confidence", "very low OCR confidence"}

\* C10: every scanned page whose OCR fails or yields only short garbled text has
\* a low-OCR-confidence warning in the result, and its text (if any) is part of
\* the result.
C10_DegradationIsWarned ==
  result.assembled =>
    \A k \in DOMAIN ocr_results :
      LET r == ocr_results[k]
      IN OcrFails(pdf[r.page_number]) \/ ShortGarbled(r) =>
           /\ LowOcrConfidenceWarning(r.page_number)
           /\ r \in Range(result.pages)

----------------------------------------------------------------------------
\* Lab measurement extraction (test_types/labs/measurements.py)
\* Values are in hundredths of the analyte's unit.

\* n / d rounded to the nearest integer, ties to the even one (Python's round).
RoundHalfEven(n, d) ==
  LET q == n \div d
      r == n % d
  IN IF 2 * r < d THEN q
     ELSE IF 2 * r > d THEN q + 1
     ELSE IF q % 2 = 0 THEN q ELSE q + 1

MeasurementDef(abbr, unit, vmin, vmax) ==
  [abbreviation |-> abbr, unit |-> unit, value_min |-> vmin, value_max |-> vmax]

\* The analytes of MEASUREMENT_DEFS that unit normalization touches, and
\* glucose, in the order of the list.
MEASUREMENT_DEFS ==
  << MeasurementDef("GLU", "mg/dL", 1000, 90000),
     MeasurementDef("WBC", "K/uL", 10, 10000),
     MeasurementDef("WBC_CUMM", "/cumm", 10000, 10000000),
     MeasurementDef("PLT", "K/uL", 50, 200000) >>

DefOf(abbr) ==
  CHOOSE d \in Range(MEASUREMENT_DEFS) : d.abbreviation = abbr

InBounds(mdef, value) == mdef.value_min <= value /\ value <= mdef.value_max

RawMeasurement(abbr, value, unit, lakh, priors) ==
  [abbreviation |-> abbr, value |-> value, unit |-> unit, lakh |-> lakh,
   prior_values |-> priors]

\* The loop of _extract_from_tables over the rows of a lab table.  A row names
\* an analyte (or none), holds the value read from its result column (or none),
\* says whether its text contains "lakh", and holds the prior-column values.
RECURSIVE TableRows(_, _, _)
TableRows(rows, results, seen) ==
  IF rows = <<>> THEN [results |-> results, seen |-> seen]
  ELSE LET row == Head(rows)
       IN IF row.abbreviation = "none" \/ row.abbreviation \in seen
            THEN TableRows(Tail(rows), results, seen)
          ELSE LET mdef == DefOf(row.abbreviation)
               IN IF row.value # <<>> /\ InBounds(mdef, row.value[1])
                    THEN TableRows(
                           Tail(rows),
                           Append(results,
                                  RawMeasurement(mdef.abbreviation, row.value[1], mdef.unit,
                                                 row.lakh,
                                                 SelectSeq(row.priors,
                                                           LAMBDA p : InBounds(mdef, p)))),
                           seen \cup {mdef.abbreviation})
                  ELSE TableRows(Tail(rows), results, seen)

_extract_from_tables(rows) == TableRows(rows, <<>>, {}).results

\* The inner loop of _extract_from_text over one analyte's patterns: the first
\* pattern whose match is within bounds wins.  A pattern's match is <<>> (no
\* match) or one reading.
RECURSIVE FirstInBounds(_, _)
FirstInBounds(mdef, matches) ==
  IF matches = <<>> THEN <<>>
  ELSE IF Head(matches) # <<>> /\ InBounds(mdef, Head(matches)[1].value)
    THEN <<RawMeasurement(mdef.abbreviation, Head(matches)[1].value, mdef.unit,
                          Head(matches)[1].lakh, <<>>)>>
  ELSE FirstInBounds(mdef, Tail(matches))

RECURSIVE TextDefs(_, _, _, _)
TextDefs(defs, text, results, seen) ==
  IF defs = <<>> THEN results
  ELSE LET mdef == Head(defs)
           found == IF mdef.abbreviation \in seen THEN <<>>
                    ELSE FirstInBounds(mdef, text[mdef.abbreviation])
       IN TextDefs(Tail(defs), text, results \o found,
                   IF found = <<>> THEN seen ELSE seen \cup {mdef.abbreviation})

\* _extract_from_text without the check of `seen` at the head of its loop.
_extract_from_text_ignoreSeen(text, seen) == TextDefs(MEASUREMENT_DEFS, text, <<>>, {})

_extract_from_text(text, seen) == TextDefs(MEASUREMENT_DEFS, text, <<>>, seen)

\* _normalize_units: WBC_CUMM becomes WBC in K/uL, PLT in lakh/cumm becomes K/uL.
RECURSIVE NormalizeLoop(_, _, _)
NormalizeLoop(results, normalized, seen_canonical) ==
  IF results = <<>> THEN normalized
  ELSE LET m == Head(results)
       IN IF m.abbreviation = "WBC_CUMM"
            THEN IF "WBC" \in seen_canonical
                   THEN NormalizeLoop(Tail(results), normalized, seen_canonical)
                 ELSE NormalizeLoop(
                        Tail(results),
                        Append(normalized,
                               \* round(m.value / 1000.0, 1)
                               RawMeasurement("WBC", 10 * RoundHalfEven(m.value, 10000), "K/uL",
                                              m.lakh, <<>>)),
                        seen_canonical \cup {"WBC"})
          ELSE IF m.abbreviation = "WBC"
            THEN IF "WBC" \in seen_canonical
                   THEN NormalizeLoop(Tail(results), normalized, seen_canonical)
                 ELSE NormalizeLoop(Tail(results), Append(normalized, m),
                                    seen_canonical \cup {"WBC"})
          ELSE IF m.abbreviation = "PLT" /\ m.lakh
            THEN NormalizeLoop(
                   Tail(results),
                   Append(normalized,
                          \* round(m.value * 100.0, 0)
                          RawMeasurement(m.abbreviation, m.value * 100, "K/uL", m.lakh, <<>>)),
                   seen_canonical)
          ELSE NormalizeLoop(Tail(results), Append(normalized, m), seen_canonical)

_normalize_units(results) == NormalizeLoop(results, <<>>, {})

\* ---- the reports the extractor is run on

MaxRows == 2

Reading(value, lakh) == [value |-> value, lakh |-> lakh]

TableRow(abbr, value, lakh, priors) ==
  [abbreviation |-> abbr, value |-> value, lakh |-> lakh, priors |-> priors]

\* Rows on and just outside the analytes' bounds, with and without priors.
LabRows ==
  { TableRow("none", <<8900>>, FALSE, <<>>),
    TableRow("GLU", <<>>, FALSE, <<>>),
    TableRow("GLU", <<1000>>, FALSE, <<9500, 90001>>),
    TableRow("GLU", <<90001>>, FALSE, <<9500>>),
    TableRow("WBC", <<10000>>, FALSE, <<>>),
    TableRow("WBC_CUMM", <<720000>>, FALSE, <<>>),
    TableRow("WBC_CUMM", <<10000000>>, FALSE, <<>>),
    TableRow("PLT", <<189>>, TRUE, <<>>),
    TableRow("PLT", <<189>>, TRUE, <<210>>),
    TableRow("PLT", <<2500>>, TRUE, <<>>),
    TableRow("PLT", <<200000>>, FALSE, <<25000>>) }

LabTables == UNION {[1..n -> LabRows] : n \in 0..MaxRows}

\* What the patterns of each analyte match in the full text.
LabTexts ==
  [GLU      : {<<>>, <<<<Reading(999, FALSE)>>, <<>>, <<Reading(9000, FALSE)>>>>},
   WBC      : {<<>>, <<<<Reading(10001, FALSE)>>, <<Reading(720, FALSE)>>>>},
   WBC_CUMM : {<<>>, <<<<Reading(10000, FALSE)>>>>},
   PLT      : {<<>>, <<<<Reading(2500, TRUE)>>>>, <<<<Reading(200001, FALSE)>>,
                                                      <<Reading(25000, FALSE)>>>>}]

\* Strategy 1: table extraction, and the set of analytes already found.
ExtractFromTables ==
  /\ lab_pc = "tables"
  /\ lab_results' = _extract_from_tables(lab_in.rows)
  /\ lab_seen' = {lab_results'[k].abbreviation : k \in DOMAIN lab_results'}
  /\ lab_pc' = "text"
  /\ UNCHANGED <<lab_in, lab_out, vars_cls, vars_pipe, vars_reg, vars_ext>>

\* Strategy 2: regex fallback for the remaining analytes.
ExtractFromText ==
  /\ lab_pc = "text"
  /\ LET text_results == _extract_from_text(lab_in.text, lab_seen)
     IN /\ lab_results' = lab_results \o text_results
        /\ lab_seen' = lab_seen \cup {text_results[k].abbreviation : k \in DOMAIN text_results}
  /\ lab_pc' = "normalize"
  /\ UNCHANGED <<lab_in, lab_out, vars_cls, vars_pipe, vars_reg, vars_ext>>

\* Strategy 3: unit normalization; its result is what extract_measurements returns.
NormalizeUnits ==
  /\ lab_pc = "normalize"
  /\ lab_out' = _normalize_units(lab_results)
  /\ lab_pc' = "done"
  /\ UNCHANGED <<lab_in, lab_results, lab_seen, vars_cls, vars_pipe, vars_reg, vars_ext>>

InitLabs ==
  /\ lab_in \in [rows : LabTables, text : LabTexts]
  /\ lab_pc = "tables"
  /\ lab_results = <<>>
  /\ lab_seen = {}
  /\ lab_out = <<>>
  /\ IdleCls /\ IdlePipe /\ IdleReg /\ IdleExt

NextLabs ==
  \/ ExtractFromTables
  \/ ExtractFromText
  \/ NormalizeUnits

SpecLabs == InitLabs /\ [][NextLabs]_vars

\* C1: every measurement extract_measurements returns lies within the sanity
\* bounds declared for its code.
C1_OutputWithinBounds ==
  lab_pc = "done" =>
    \A k \in DOMAIN lab_out :
      InBounds(DefOf(lab_out[k].abbreviation), lab_out[k].value)

----------------------------------------------------------------------------
\* Test-type registry (test_types/registry.py)
\* Confidences are in thousandths.  Text is a TLA+ string.

\* ---- str helpers

IsSubstring(a, b) ==
  \E i \in 1..(Len(b) - Len(a) + 1) : SubSeq(b, i, i + Len(a) - 1) = a

\* The upper-case letters and their lower-case forms.
LowerOf ==
  LET upper == "ABCDEFGHIJKLMNOPQRSTUVWXYZ"
      lower == "abcdefghijklmnopqrstuvwxyz"
  IN [c \in {SubSeq(upper, i, i) : i \in 1..Len(upper)} |->
        LET i == CHOOSE j \in 1..Len(upper) : SubSeq(upper, j, j) = c
        IN SubSeq(lower, i, i)]

LowerChar(c) == IF c \in DOMAIN LowerOf THEN LowerOf[c] ELSE c

\* str.lower()
RECURSIVE Lower(_)
Lower(s) == IF Len(s) = 0 THEN "" ELSE LowerChar(SubSeq(s, 1, 1)) \o Lower(SubSeq(s, 2, Len(s)))

\* str.rstrip(chars) for a set of one-character strings
RECURSIVE Rstrip(_, _)
Rstrip(s, chars) ==
  IF Len(s) > 0 /\ SubSeq(s, Len(s), Len(s)) \in chars
    THEN Rstrip(SubSeq(s, 1, Len(s) - 1), chars)
  ELSE s

RECURSIVE Lstrip(_, _)
Lstrip(s, chars) ==
  IF Len(s) > 0 /\ SubSeq(s, 1, 1) \in chars THEN Lstrip(SubSeq(s, 2, Len(s)), chars) ELSE s

Whitespace == {" ", "\t", "\n", "\r"}

\* str.strip()
Strip(s) == Lstrip(Rstrip(s, Whitespace), Whitespace)

\* ---- the registry built by test_types/__init__.py (handlers with source)

Handler(id, keywords, generic) == [id |-> id, keywords |-> keywords, generic |-> generic]

\* self._handlers, in registration order, each with some of its keywords.
_handlers ==
  << Handler("lab_results", <<"lab results", "cbc", "glucose">>, FALSE),
     Handler("stress_test", <<"stress test", "spect", "mets">>, FALSE) >>

HandlerIds == {_handlers[i].id : i \in DOMAIN _handlers}

\* self._subtype_parents: register_subtype is never called.
_subtype_parents == {}

\* ---- resolve

\* All (handler, keyword) pairs in the order of the two nested loops.
RECURSIVE KeywordPairs(_)
KeywordPairs(hs) ==
  IF hs = <<>> THEN <<>>
  ELSE [k \in DOMAIN Head(hs).keywords |-> [id |-> Head(hs).id, kw |-> Head(hs).keywords[k]]]
         \o KeywordPairs(Tail(hs))

\* The pairs of the registry with kw.lower() next to kw.
LoweredKeywordPairs ==
  LET pairs == KeywordPairs(_handlers)
  IN [k \in DOMAIN pairs |-> [id |-> pairs[k].id, kw |-> pairs[k].kw, lower |-> Lower(pairs[k].kw)]]

RECURSIVE KeywordLoop(_, _, _, _)
KeywordLoop(pairs, query, best_id, best_score) ==
  IF pairs = <<>> THEN best_id
  ELSE LET p == Head(pairs)
           hit == IsSubstring(p.lower, query) \/ IsSubstring(query, p.lower)
       IN IF hit /\ Len(p.kw) > best_score
            THEN KeywordLoop(Tail(pairs), query, <<p.id>>, Len(p.kw))
          ELSE KeywordLoop(Tail(pairs), query, best_id, best_score)

\* TestTypeRegistry.resolve: the resolved id, <<>> for None.
resolve(type_id_or_name) ==
  IF type_id_or_name \in _subtype_parents THEN <<type_id_or_name>>
  ELSE IF type_id_or_name \in HandlerIds THEN <<type_id_or_name>>
  ELSE KeywordLoop(LoweredKeywordPairs, Lower(type_id_or_name), <<>>, 0)

\* ---- header pre-pass

HEADER_CHARS == 500
HEADER_CONFIDENCE == 850

\* A line of the full text.  pat is the _HEADER_PATTERNS entry (1..3) that
\* matches on the line, 0 for none; head is the number of characters before
\* the text that follows the label keyword (the whole line for pat 0); rest is
\* that text; need is the number of characters of the line the pattern needs.
Line(pat, head, need, rest) == [pat |-> pat, head |-> head, need |-> need, rest |-> rest]

Filler(n) == Line(0, n, 0, "")
\* "Report: x", "Exam Type: x", ...: keyword, separator, then (.+)
Labeled(prefix, rest) == Line(1, Len(prefix), Len(prefix) + 1, rest)
\* "IMPRESSION FOR x": \s+ and (.+) need two characters after the prefix
SectionFor(prefix, rest) == Line(2, Len(prefix), Len(prefix) + 2, rest)
\* "SPECT xyz": the group is the whole line, modality, \s+ and .{3,60}
Modality(modality, rest) == Line(3, 0, Len(modality) + 4, modality \o rest)

LineLen(l) == l.head + Len(l.rest)

\* Offset of line k in the full text; lines are joined by one newline.
RECURSIVE Offset(_, _)
Offset(lines, k) == IF k = 1 THEN 0 ELSE Offset(lines, k - 1) + LineLen(lines[k - 1]) + 1

\* Characters of line k inside full_text[:limit].
Visible(lines, k, limit) == Max(0, Min(LineLen(lines[k]), limit - Offset(lines, k)))

\* pattern.search(header_text): group(1) of the leftmost match, stripped.
HeaderLabel(lines, p, limit) ==
  LET hits == {k \in DOMAIN lines : lines[k].pat = p /\ Visible(lines, k, limit) >= lines[k].need}
  IN IF hits = {} THEN <<>>
     ELSE LET k == CHOOSE h \in hits : \A o \in hits : h <= o
          IN <<Rstrip(Strip(SubSeq(lines[k].rest, 1, Visible(lines, k, limit) - lines[k].head)),
                      {"."})>>

HeaderResult(id, confidence) == [id |-> id, confidence |-> confidence]

RECURSIVE HeaderPatterns(_, _, _)
HeaderPatterns(lines, p, limit) ==
  IF p > 3 THEN HeaderResult(<<>>, 0)
  ELSE LET label == HeaderLabel(lines, p, limit)
           resolved_id == IF label = <<>> THEN <<>> ELSE resolve(label[1])
       IN IF resolved_id # <<>> THEN HeaderResult(resolved_id, HEADER_CONFIDENCE)
          ELSE HeaderPatterns(lines, p + 1, limit)

TextLen(lines) == IF lines = <<>> THEN 0 ELSE Offset(lines, Len(lines)) + LineLen(lines[Len(lines)])

\* detect_from_header scanning the whole text instead of full_text[:500].
detect_from_header_wholeText(doc) == HeaderPatterns(doc.lines, 1, TextLen(doc.lines))

detect_from_header(doc) == HeaderPatterns(doc.lines, 1, HEADER_CHARS)

\* ---- correction cache

\* A row of detection_corrections statistics; the cache {detected: {corrected:
\* cnt}} is the set of its rows, at most one per (detected, corrected).
CorrectionRow(detected, corrected, cnt) ==
  [detected |-> detected, corrected |-> corrected, cnt |-> cnt]

SameKey(r, s) == r.detected = s.detected /\ r.corrected = s.corrected

\* cache.setdefault(detected, {})[corrected] = cnt for every row of stats.
FillCache(cache, stats) ==
  {r \in cache : \A s \in stats : ~SameKey(r, s)} \cup stats

\* refresh_correction_cache filling the live dict instead of a new one.
RefreshedCache_inPlace(current, stats) == FillCache(current, stats)

\* Lines 54-60: the value of _correction_cache after the refresh.
RefreshedCache(current, stats) == FillCache({}, stats)

RECURSIVE SumCnt(_)
SumCnt(rows) ==
  IF rows = {} THEN 0
  ELSE LET r == CHOOSE x \in rows : TRUE IN r.cnt + SumCnt(rows \ {r})

Score(id, confidence) == [id |-> id, confidence |-> confidence]

\* The adjustments without the caps of 0.10.
_apply_correction_adjustments_uncapped(scores, cache) ==
  IF cache = {} THEN scores
  ELSE [k \in DOMAIN scores |->
          LET type_id == scores[k].id
              from == {r \in cache : r.detected = type_id}
              to == {r \in cache : r.corrected = type_id}
              penalty == IF from # {} THEN SumCnt(from) * 30 ELSE 0
              boost == IF to # {} THEN SumCnt(to) * 30 ELSE 0
          IN Score(type_id, Max(0, Min(1000, scores[k].confidence - penalty + boost)))]

\* _apply_correction_adjustments on the cache it reads.
_apply_correction_adjustments(scores, cache) ==
  IF cache = {} THEN scores
  ELSE [k \in DOMAIN scores |->
          LET type_id == scores[k].id
              from == {r \in cache : r.detected = type_id}
              to == {r \in cache : r.corrected = type_id}
              penalty == IF from # {} THEN Min(SumCnt(from) * 30, 100) ELSE 0
              boost == IF to # {} THEN Min(SumCnt(to) * 30, 100) ELSE 0
          IN Score(type_id, Max(0, Min(1000, scores[k].confidence - penalty + boost)))]

\* ---- detect

Answer(raises, confidence) == [raises |-> raises, confidence |-> confidence]

\* The loop over self._handlers with try/except around handler.detect written
\* around the whole loop: the first handler that raises ends detect.
RECURSIVE ScoreHandlers_noCatch(_, _)
ScoreHandlers_noCatch(hs, doc) ==
  IF hs = <<>> THEN [scores |-> <<>>, raised |-> FALSE]
  ELSE LET a == doc.answers[Head(hs).id]
       IN IF a.raises THEN [scores |-> <<>>, raised |-> TRUE]
          ELSE LET rest == ScoreHandlers_noCatch(Tail(hs), doc)
               IN [scores |-> (IF a.confidence > 0 THEN <<Score(Head(hs).id, a.confidence)>>
                               ELSE <<>>) \o rest.scores,
                   raised |-> rest.raised]

\* The loop over self._handlers (lines 164-171): a handler that raises is logged
\* and skipped.
RECURSIVE ScoreHandlers(_, _)
ScoreHandlers(hs, doc) ==
  IF hs = <<>> THEN [scores |-> <<>>, raised |-> FALSE]
  ELSE LET a == doc.answers[Head(hs).id]
           rest == ScoreHandlers(Tail(hs), doc)
       IN [scores |-> (IF ~a.raises /\ a.confidence > 0
                         THEN <<Score(Head(hs).id, a.confidence)>> ELSE <<>>) \o rest.scores,
           raised |-> rest.raised]

\* scores.sort(key=confidence, reverse=True): stable, descending.
RECURSIVE InsertByConfidence(_, _)
InsertByConfidence(s, sorted) ==
  IF sorted = <<>> THEN <<s>>
  ELSE IF s.confidence > Head(sorted).confidence THEN <<s>> \o sorted
  ELSE <<Head(sorted)>> \o InsertByConfidence(s, Tail(sorted))

RECURSIVE SortByConfidence(_)
SortByConfidence(s) ==
  IF s = <<>> THEN <<>>
  ELSE InsertByConfidence(s[Len(s)], SortByConfidence(SubSeq(s, 1, Len(s) - 1)))

HandlerIn(handlers, id) == CHOOSE h \in Range(handlers) : h.id = id

HandlerOf(id) == HandlerIn(_handlers, id)

\* "best_confidence - second_conf <= 0.15" on IEEE-754 doubles, for scores given
\* in thousandths.  Away from a difference of exactly 0.15 the comparison agrees
\* with exact arithmetic.  At exactly 0.15 the rounding of the operands decides:
\* 0.9 - 0.75, 1.0 - 0.85 and 0.15000000000000002 - 0.0 exceed 0.15, whereas
\* 0.9400000000000001 - 0.79 does not.  RoundsWithin holds the pairs of this
\* model's scores, 0.15 apart, whose double difference is at most 0.15.
RoundsWithin == {<<940, 790>>}

CloseScores(best_confidence, second_conf) ==
  \/ best_confidence - second_conf < 150
  \/ best_confidence - second_conf = 150 /\ <<best_confidence, second_conf>> \in RoundsWithin

\* handler.resolve_subtype: the stress family resolves to one of its subtypes
\* (chosen by the text), the others return None.
resolve_subtype(id, doc) == IF id = "stress_test" THEN <<doc.subtype>> ELSE <<>>

DetectResult(id, confidence, raised) == [id |-> id, confidence |-> confidence, raised |-> raised]

\* TestTypeRegistry.detect over the handlers registered in self._handlers, with
\* the cache value its reads return.  The outcome holds what the call returned,
\* the header pre-pass result, the scores the handler loop collected, the scores
\* after the correction adjustments and the sort, and the cache values read at
\* lines 75, 80 and 89.
detect_in(handlers, doc, cache) ==
  LET header == detect_from_header(doc)
      collected == ScoreHandlers(handlers, doc)
      adjusted == _apply_correction_adjustments(collected.scores, cache)
      sorted == SortByConfidence(adjusted)
      swap == /\ Len(sorted) >= 2
              /\ CloseScores(sorted[1].confidence, sorted[2].confidence)
              /\ HandlerIn(handlers, sorted[1].id).generic
              /\ ~HandlerIn(handlers, sorted[2].id).generic
      best == IF swap THEN sorted[2] ELSE sorted[1]
      subtype == resolve_subtype(best.id, doc)
  IN IF header.id # <<>>
       THEN [header |-> header, scores |-> <<>>, adjusted |-> <<>>, sorted |-> <<>>,
             reads |-> <<>>,
             result |-> DetectResult(header.id, header.confidence, FALSE)]
     ELSE IF collected.raised
       THEN [header |-> header, scores |-> collected.scores, adjusted |-> <<>>,
             sorted |-> <<>>, reads |-> <<>>,
             result |-> DetectResult(<<>>, 0, TRUE)]
     ELSE IF collected.scores = <<>>
       THEN [header |-> header, scores |-> <<>>, adjusted |-> <<>>, sorted |-> <<>>,
             reads |-> <<>>,
             result |-> DetectResult(<<>>, 0, FALSE)]
     ELSE [header |-> header, scores |-> collected.scores, adjusted |-> adjusted,
           sorted |-> sorted,
           reads |-> IF cache = {} THEN <<cache>> ELSE <<cache, cache, cache>>,
           result |-> DetectResult(IF subtype # <<>> THEN subtype ELSE <<best.id>>,
                                   best.confidence, FALSE)]

\* The registry of test_types/__init__.py.
detect(doc, cache) == detect_in(_handlers, doc, cache)

Detection(doc, outcome) ==
  [called |-> TRUE, doc |-> doc, header |-> outcome.header, scores |-> outcome.scores,
   adjusted |-> outcome.adjusted, sorted |-> outcome.sorted,
   reads |-> outcome.reads, result |-> outcome.result]

\* ---- the documents detect is called on

Document(lines, answers, subtype) == [lines |-> lines, answers |-> answers, subtype |-> subtype]

HandlerAnswers == {Answer(TRUE, 0), Answer(FALSE, 0), Answer(FALSE, 500), Answer(FALSE, 900)}

Subtypes == {"exercise_treadmill_test", "pharma_spect_stress"}

\* Texts whose first 500 characters hold a label.
LabelledLines ==
  { <<Labeled("Report:", " stress test")>>,
    <<Labeled("Exam Type:", " lab_results")>>,
    <<Labeled("Report:", " Lab Results. ")>>,
    <<Labeled("Report:", " .")>>,
    <<SectionFor("IMPRESSION FOR", " glucose")>>,
    <<Labeled("Test:", " unknown"), Modality("SPECT", " stress test")>>,
    <<Labeled("Study:", " chest x-ray"), Labeled("Report:", " lab results")>>,
    \* the text after "Report:" starts at offset 493
    <<Filler(485), Labeled("Report:", " stress test.")>> }

\* Texts without a label, or with one at offset 501 or 608.
UnlabelledLines ==
  { <<Filler(40)>>,
    <<Filler(493), Labeled("Report:", " stress test")>>,
    <<Filler(600), Labeled("Report:", " lab results")>> }

\* What the handlers answer for a text with a label: a competing handler
\* scores high or raises.
LabelledAnswers ==
  {a \in [HandlerIds -> HandlerAnswers] :
     /\ a["lab_results"] \in {Answer(TRUE, 0), Answer(FALSE, 900)}
     /\ a["stress_test"] = Answer(FALSE, 900)}

RegistryDocuments ==
  {Document(l, a, s) : l \in LabelledLines, a \in LabelledAnswers, s \in Subtypes}
    \cup {Document(l, a, s) : l \in UnlabelledLines, a \in [HandlerIds -> HandlerAnswers],
                              s \in Subtypes}

\* Complete correction snapshots.
CorrectionRows ==
  { CorrectionRow("stress_test", "lab_results", 2),
    CorrectionRow("lab_results", "stress_test", 4) }

TickSeconds == 300
MaxTicks == 3
MaxInFlight == 1
_CACHE_TTL == 600

\* The rows the statistics query returns, or none when the load raises.
LoadedStats(ok) == IF ok THEN db_rows ELSE {}

\* The end of refresh_correction_cache (lines 54-61) for the rows it was given.
SwapCache(stats) ==
  /\ correction_cache' = RefreshedCache(correction_cache, stats)
  /\ cache_ts' = now
  /\ loaded' = loaded \cup {stats}

\* detect for every document and cache value of the model, evaluated once.
DetectOutcomes ==
  [doc \in RegistryDocuments |-> [cache \in SUBSET CorrectionRows |-> detect(doc, cache)]]

\* A request calls registry.detect.  detect is a plain function called from a
\* coroutine: it runs to its end without yielding to the event loop.
DetectReport ==
  /\ \E doc \in RegistryDocuments :
       det' = Detection(doc, DetectOutcomes[doc][correction_cache])
  /\ UNCHANGED <<correction_cache, cache_ts, now, db_rows, refresh_pc, loaded,
                 vars_cls, vars_pipe, vars_labs, vars_ext>>

\* refresh_correction_cache without DATABASE_URL: no await, one step.
RefreshSqlite ==
  /\ \E ok \in BOOLEAN : SwapCache(LoadedStats(ok))
  /\ UNCHANGED <<now, db_rows, refresh_pc, det, vars_cls, vars_pipe, vars_labs, vars_ext>>

InitRegistry ==
  /\ correction_cache = {}
  /\ loaded = {{}}
  /\ db_rows \in SUBSET CorrectionRows
  /\ cache_ts = 0
  /\ now = 0
  /\ refresh_pc = 0
  /\ det = NoDet
  /\ IdleCls /\ IdlePipe /\ IdleLabs /\ IdleExt

NextRegistry ==
  \/ DetectReport
  \/ RefreshSqlite

SpecRegistry == InitRegistry /\ [][NextRegistry]_vars

\* ---- the cache while requests and refreshes interleave

ProbeDocuments ==
  {doc \in RegistryDocuments :
     /\ doc.lines = <<Filler(40)>>
     /\ doc.answers["stress_test"] = Answer(FALSE, 500)
     /\ doc.answers["lab_results"] \in {Answer(TRUE, 0), Answer(FALSE, 500)}
     /\ doc.subtype = "pharma_spect_stress"}

DetectProbe ==
  /\ \E doc \in ProbeDocuments :
       det' = Detection(doc, DetectOutcomes[doc][correction_cache])
  /\ UNCHANGED <<correction_cache, cache_ts, now, db_rows, refresh_pc, loaded,
                 vars_cls, vars_pipe, vars_labs, vars_ext>>

\* Users record or age out corrections.
DbChange ==
  /\ \E rows \in SUBSET CorrectionRows : rows # db_rows /\ db_rows' = rows
  /\ UNCHANGED <<correction_cache, cache_ts, now, refresh_pc, loaded, det,
                 vars_cls, vars_pipe, vars_labs, vars_ext>>

\* time.monotonic() advances.
Tick ==
  /\ now < MaxTicks * TickSeconds
  /\ now' = now + TickSeconds
  /\ UNCHANGED <<correction_cache, cache_ts, db_rows, refresh_pc, loaded, det,
                 vars_cls, vars_pipe, vars_labs, vars_ext>>

\* refresh_correction_cache with DATABASE_URL, up to "await get_correction_stats()".
RefreshPgBegin ==
  /\ refresh_pc < MaxInFlight
  /\ refresh_pc' = refresh_pc + 1
  /\ UNCHANGED <<correction_cache, cache_ts, now, db_rows, loaded, det,
                 vars_cls, vars_pipe, vars_labs, vars_ext>>

\* The await returns (or raises) and the refresh runs to its end.
RefreshPgComplete ==
  /\ refresh_pc > 0
  /\ refresh_pc' = refresh_pc - 1
  /\ \E ok \in BOOLEAN : SwapCache(LoadedStats(ok))
  /\ UNCHANGED <<now, db_rows, det, vars_cls, vars_pipe, vars_labs, vars_ext>>

\* _maybe_refresh_corrections: refresh when the cache is older than the TTL.
MaybeRefreshCorrections ==
  /\ now - cache_ts > _CACHE_TTL
  /\ refresh_pc < MaxInFlight
  /\ refresh_pc' = refresh_pc + 1
  /\ UNCHANGED <<correction_cache, cache_ts, now, db_rows, loaded, det,
                 vars_cls, vars_pipe, vars_labs, vars_ext>>

InitCache ==
  /\ correction_cache = {}
  /\ loaded = {{}}
  /\ db_rows \in SUBSET CorrectionRows
  /\ cache_ts = 0
  /\ now = 0
  /\ refresh_pc = 0
  /\ det = NoDet
  /\ IdleCls /\ IdlePipe /\ IdleLabs /\ IdleExt

NextCache ==
  \/ DetectProbe
  \/ DbChange
  \/ Tick
  \/ RefreshPgBegin
  \/ RefreshPgComplete
  \/ RefreshSqlite
  \/ MaybeRefreshCorrections

SpecCache == InitCache /\ [][NextCache]_vars

----------------------------------------------------------------------------
\* Properties of the test-type registry

\* The label text of a line: what follows the keyword, stripped.
LabelOf(l) == Rstrip(Strip(l.rest), {"."})

\* The handlers a label names by a keyword, in either direction of containment.
KeywordOwners(label) ==
  {h.id : h \in {g \in Range(_handlers) :
                   \E i \in DOMAIN g.keywords :
                     \/ IsSubstring(g.keywords[i], Lower(label))
                     \/ IsSubstring(Lower(label), g.keywords[i])}}

\* Line k is the first labelled line of the text and lies within its first 500
\* characters.
FirstLabelInHeader(lines, k) ==
  /\ lines[k].pat # 0
  /\ \A j \in 1..(k - 1) : lines[j].pat = 0
  /\ Offset(lines, k) + LineLen(lines[k]) <= HEADER_CHARS

\* C5: when the label the pre-pass finds within the first 500 characters
\* resolves to a registered type, detect returns that type with confidence 0.85
\* whatever the handlers score, the cache holds or the subtype would be; a
\* label that is a handler id or names handlers by keyword resolves to such a
\* type; and the pre-pass resolves nothing unless a label starts within the
\* first 500 characters.
C5_HeaderLabelShortCircuits ==
  det.called =>
    LET lines == det.doc.lines
    IN /\ det.header.id # <<>> =>
            /\ det.result = DetectResult(det.header.id, HEADER_CONFIDENCE, FALSE)
            /\ det.header.id[1] \in HandlerIds
            /\ \E k \in DOMAIN lines :
                 lines[k].pat # 0 /\ Offset(lines, k) + lines[k].head < HEADER_CHARS
       /\ \A k \in DOMAIN lines :
            FirstLabelInHeader(lines, k) =>
              /\ LabelOf(lines[k]) \in HandlerIds =>
                   det.result = DetectResult(<<LabelOf(lines[k])>>, HEADER_CONFIDENCE, FALSE)
              /\ KeywordOwners(LabelOf(lines[k])) # {} =>
                   /\ det.result.id # <<>>
                   /\ det.result.id[1] \in KeywordOwners(LabelOf(lines[k]))
                   /\ det.result.confidence = HEADER_CONFIDENCE

\* "Report: stress test" while the labs handler scores 0.9, the stress family
\* would resolve to a subtype and the cache holds corrections.
C5_Witness ==
  /\ det.called
  /\ det.header.id = <<"stress_test">>
  /\ det.doc.answers["lab_results"] = Answer(FALSE, 900)
  /\ det.doc.subtype = "pharma_spect_stress"
  /\ correction_cache # {}
  /\ det.result = DetectResult(<<"stress_test">>, HEADER_CONFIDENCE, FALSE)

\* The scores of the handlers that answer above zero, in registration order.
PositiveAnswers(doc) ==
  LET ok == SelectSeq(_handlers,
                      LAMBDA h : ~doc.answers[h.id].raises /\ doc.answers[h.id].confidence > 0)
  IN [k \in DOMAIN ok |-> Score(ok[k].id, doc.answers[ok[k].id].confidence)]

\* C6: detect never raises; when the header pre-pass finds nothing and no
\* handler scores above zero it returns (None, 0.0); and a handler that raises
\* is skipped, the scores collected from the other handlers being what they
\* answered.
C6_NoSignalIsNoneZero ==
  det.called =>
    /\ ~det.result.raised
    /\ det.header.id = <<>> =>
         /\ Len(det.scores) = Len(PositiveAnswers(det.doc))
         /\ \A k \in DOMAIN det.scores : det.scores[k] = PositiveAnswers(det.doc)[k]
         /\ Len(det.scores) = 0 => det.result = DetectResult(<<>>, 0, FALSE)

\* No label, one handler raises and the other scores zero.
C6_Witness ==
  /\ det.called
  /\ det.header.id = <<>>
  /\ det.doc.answers["lab_results"].raises
  /\ det.doc.answers["stress_test"] = Answer(FALSE, 0)
  /\ det.result = DetectResult(<<>>, 0, FALSE)

----------------------------------------------------------------------------
\* Properties of the correction cache

\* C7: the cache is at every moment one complete snapshot a load returned
\* (or the empty start value), and all reads of the cache made by one detect
\* call return the same complete snapshot, also when refreshes are in flight.
C7_CacheIsWholeSnapshot ==
  /\ correction_cache \in loaded
  /\ det.called =>
       \A i \in DOMAIN det.reads :
         det.reads[i] = det.reads[1] /\ det.reads[i] \in loaded

\* A call read a non-empty snapshot three times, and a refresh has since
\* replaced it by another non-empty snapshot.
C7_Witness ==
  /\ det.called
  /\ Len(det.reads) = 3
  /\ correction_cache # {}
  /\ correction_cache # det.reads[1]

----------------------------------------------------------------------------
\* Properties of the lab measurement extractor

\* The rows of the tables that hold an in-bounds value for code c.
TableHits(c) ==
  {k \in DOMAIN lab_in.rows :
     /\ lab_in.rows[k].abbreviation = c
     /\ lab_in.rows[k].value # <<>>
     /\ InBounds(DefOf(c), lab_in.rows[k].value[1])}

\* The patterns of code c whose match in the text is in bounds.
TextHits(c) ==
  {k \in DOMAIN lab_in.text[c] :
     lab_in.text[c][k] # <<>> /\ InBounds(DefOf(c), lab_in.text[c][k][1].value)}

First(S) == CHOOSE k \in S : \A o \in S : k <= o

LabCodes == {MEASUREMENT_DEFS[k].abbreviation : k \in DOMAIN MEASUREMENT_DEFS}

OnePerCode(ms) ==
  \A i, j \in DOMAIN ms : i # j => ms[i].abbreviation # ms[j].abbreviation

\* C11: the extractor's output holds at most one measurement per code; the
\* value kept for a code is that of the first table row with an in-bounds value
\* for it, or, when no table row has one, that of its first pattern with an
\* in-bounds match in the text.
C11_OnePerCodeTableFirst ==
  lab_pc = "done" =>
    /\ OnePerCode(lab_results)
    /\ OnePerCode(lab_out)
    /\ \A c \in LabCodes :
         /\ TableHits(c) # {} =>
              LET row == lab_in.rows[First(TableHits(c))]
              IN /\ \E m \in Range(lab_results) :
                      m.abbreviation = c /\ m.value = row.value[1] /\ m.lakh = row.lakh
                 /\ c \in {"GLU", "PLT"} =>
                      \E m \in Range(lab_out) :
                        /\ m.abbreviation = c
                        /\ m.value = IF c = "PLT" /\ row.lakh THEN 100 * row.value[1]
                                     ELSE row.value[1]
         /\ TableHits(c) = {} /\ TextHits(c) # {} =>
              \E m \in Range(lab_results) :
                /\ m.abbreviation = c
                /\ m.value = lab_in.text[c][First(TextHits(c))][1].value
         /\ TableHits(c) = {} /\ TextHits(c) = {} =>
              \A m \in Range(lab_results) : m.abbreviation # c

\* Two table rows hold in-bounds platelet counts, the text holds another one,
\* and the output carries the first row's.
C11_Witness ==
  /\ lab_pc = "done"
  /\ Len(lab_in.rows) = 2
  /\ lab_in.rows[1] = TableRow("PLT", <<200000>>, FALSE, <<25000>>)
  /\ lab_in.rows[2] = TableRow("PLT", <<189>>, TRUE, <<>>)
  /\ TextHits("PLT") # {}
  /\ \E m \in Range(lab_out) : m.abbreviation = "PLT" /\ m.value = 200000

----------------------------------------------------------------------------
\* Pasted-text table parser (extraction/text_table_parser.py)

_MIN_COLS == 2
SCAN_LINES == 30

Abs(x) == IF x < 0 THEN -x ELSE x

\* A line of the pasted text.  kind says what the line is made of; cells are
\* its stripped cells:
\*   "blank"      matches _BLANK_LINE
\*   "separator"  matches _SEPARATOR_LINE (dashes, pipes, plus signs)
\*   "pipe"       cells are the parts of line.split("|"), joined by " | "
\*   "tab"        cells are the parts of line.split("\t")
\*   "fixed"      non-empty cells separated by two or more spaces
\*   "prose"      one run of words separated by single spaces
TextLine(kind, cells) == [kind |-> kind, cells |-> cells]

BlankLine == TextLine("blank", <<>>)
SeparatorLine == TextLine("separator", <<>>)
PipeLine(parts) == TextLine("pipe", parts)
TabLine(cells) == TextLine("tab", cells)
FixedLine(cells) == TextLine("fixed", cells)
ProseLine(text) == TextLine("prose", <<text>>)

_is_data_line(line) == line.kind \notin {"blank", "separator"}

\* "|" in line, for a data line
ContainsPipe(line) == line.kind = "pipe"

\* "\t" in line
ContainsTab(line) == line.kind = "tab"

ExtractedTable(page_number, table_index, headers, rows) ==
  [page_number |-> page_number, table_index |-> table_index, headers |-> headers, rows |-> rows]

RECURSIVE DropLeadingEmpty(_)
DropLeadingEmpty(cells) ==
  IF cells # <<>> /\ Head(cells) = "" THEN DropLeadingEmpty(Tail(cells)) ELSE cells

RECURSIVE DropTrailingEmpty(_)
DropTrailingEmpty(cells) ==
  IF cells # <<>> /\ cells[Len(cells)] = ""
    THEN DropTrailingEmpty(SubSeq(cells, 1, Len(cells) - 1))
  ELSE cells

\* _split_pipe: every empty cell at either end is removed.
_split_pipe(line) == DropTrailingEmpty(DropLeadingEmpty(line.cells))

\* A row appended as it was split, neither padded nor cut.
PadOrTrim_asIs(cells, n) == cells

\* "while len(cells) < n: cells.append('')" followed by cells[:n]
PadOrTrim(cells, n) == [k \in 1..n |-> IF k <= Len(cells) THEN cells[k] ELSE ""]

\* The row loop of _try_pipe_delimited (lines 127-138).
RECURSIVE PipeRows(_, _)
PipeRows(lines, expected_cols) ==
  IF lines = <<>> THEN <<>>
  ELSE LET line == Head(lines)
           cells == _split_pipe(line)
           rest == PipeRows(Tail(lines), expected_cols)
       IN IF ~_is_data_line(line) \/ ~ContainsPipe(line) THEN rest
          ELSE IF Abs(Len(cells) - expected_cols) <= 1
            THEN <<PadOrTrim(cells, expected_cols)>> \o rest
          ELSE rest

_try_pipe_delimited(lines) ==
  LET scan_lines == SubSeq(lines, 1, Min(SCAN_LINES, Len(lines)))
      pipe_lines == SelectSeq(scan_lines, LAMBDA l : ContainsPipe(l) /\ _is_data_line(l))
      found == {i \in DOMAIN lines : ContainsPipe(lines[i]) /\ _is_data_line(lines[i])}
  IN IF Len(pipe_lines) < 2 THEN <<>>
     ELSE LET header_line_idx == CHOOSE i \in found : \A o \in found : i <= o
              headers == _split_pipe(lines[header_line_idx])
              rows == PipeRows(SubSeq(lines, header_line_idx + 1, Len(lines)), Len(headers))
          IN IF Len(headers) < _MIN_COLS THEN <<>>
             ELSE IF rows = <<>> THEN <<>>
             ELSE <<ExtractedTable(1, 0, headers, rows)>>

\* ---- header synthesis

DEFAULT_NAMES == <<"Name", "Value", "Units", "Range", "Flag">>

\* Cells of the model's vocabulary that match _UNIT_PATTERNS, the two
\* reference-range patterns, the flag pattern and the numeric pattern.
UnitCells == {"mg/dL", "%"}
RangeCells == {"70-100"}
FlagCells == {"H"}
NumberCells == {"95", "14"}

\* str(i) for one digit
Digit(i) == SubSeq("0123456789", i + 1, i + 1)

Matches(col_vals, cells) == Len(SelectSeq(col_vals, LAMBDA v : v \in cells))

\* The content analysis of one column (lines 339-372); "" when nothing fits.
ColumnHeader(col, headers, sample_rows) ==
  LET in_col == SelectSeq(sample_rows, LAMBDA row : col < Len(row) /\ row[col + 1] # "")
      col_vals == [k \in DOMAIN in_col |-> in_col[k][col + 1]]
      n == Len(col_vals)
      unit_matches == Matches(col_vals, UnitCells)
      range_matches == Matches(col_vals, RangeCells)
      flag_matches == Matches(col_vals, FlagCells)
      num_matches == Matches(col_vals, NumberCells)
  IN IF n = 0 THEN ""
     ELSE IF 10 * unit_matches >= 4 * n /\ unit_matches >= 2 THEN "Units"
     ELSE IF 10 * range_matches >= 3 * n /\ range_matches >= 2 THEN "Range"
     ELSE IF 10 * flag_matches >= 2 * n /\ flag_matches >= 1 THEN "Flag"
     ELSE IF 10 * num_matches >= 5 * n
       THEN IF "Value" \notin Range(headers) THEN "Value" ELSE "Value" \o Digit(col)
     ELSE ""

\* "for col in range(1, num_cols)"
RECURSIVE DetectColumns(_, _, _)
DetectColumns(col, headers, sample_rows) ==
  IF col >= Len(headers) THEN headers
  ELSE DetectColumns(col + 1,
                     [headers EXCEPT ![col + 1] = ColumnHeader(col, headers, sample_rows)],
                     sample_rows)

\* The first default name not in `used`, or <<>>.
FirstUnused(used) ==
  LET free == {k \in DOMAIN DEFAULT_NAMES : DEFAULT_NAMES[k] \notin used}
  IN IF free = {} THEN <<>>
     ELSE <<DEFAULT_NAMES[CHOOSE k \in free : \A o \in free : k <= o]>>

\* "Fill remaining empty headers with defaults" (lines 374-385)
RECURSIVE FillDefaults(_, _, _)
FillDefaults(i, headers, used) ==
  IF i >= Len(headers) THEN headers
  ELSE IF headers[i + 1] # "" THEN FillDefaults(i + 1, headers, used)
  ELSE LET d == FirstUnused(used)
       IN IF d # <<>>
            THEN FillDefaults(i + 1, [headers EXCEPT ![i + 1] = d[1]], used \cup {d[1]})
          ELSE FillDefaults(i + 1, [headers EXCEPT ![i + 1] = "Col" \o Digit(i)], used)

_synthesize_headers(num_cols, sample_rows) ==
  IF num_cols <= Len(DEFAULT_NAMES) /\ sample_rows = <<>>
    THEN SubSeq(DEFAULT_NAMES, 1, num_cols)
  ELSE IF sample_rows = <<>>
    THEN DEFAULT_NAMES \o [k \in 1..(num_cols - Len(DEFAULT_NAMES)) |->
                             "Col" \o Digit(Len(DEFAULT_NAMES) + k - 1)]
  ELSE LET blank == [k \in 1..num_cols |-> IF k = 1 THEN "Name" ELSE ""]
           detected == DetectColumns(1, blank, sample_rows)
       IN FillDefaults(0, detected, Range(detected) \ {""})

\* ---- tab-delimited

TAB_HEADER_KEYWORDS ==
  {"test", "result", "value", "units", "unit", "reference", "range", "flag", "status",
   "analyte", "component", "name", "investigation", "parameter", "observed", "normal"}

FIXED_HEADER_KEYWORDS == TAB_HEADER_KEYWORDS \ {"observed", "normal"}

HasHeaderKeyword(cells, keywords) == \E k \in DOMAIN cells : Lower(cells[k]) \in keywords

\* The row loop of _try_tab_delimited (lines 207-216).
RECURSIVE TabRows(_, _)
TabRows(lines, expected_cols) ==
  IF lines = <<>> THEN <<>>
  ELSE LET line == Head(lines)
           rest == TabRows(Tail(lines), expected_cols)
       IN IF ~_is_data_line(line) \/ ~ContainsTab(line) THEN rest
          ELSE IF Abs(Len(line.cells) - expected_cols) <= 1
            THEN <<PadOrTrim(line.cells, expected_cols)>> \o rest
          ELSE rest

_try_tab_delimited(lines) ==
  LET scan_lines == SubSeq(lines, 1, Min(SCAN_LINES, Len(lines)))
      tab_lines == SelectSeq(scan_lines, LAMBDA l : ContainsTab(l) /\ _is_data_line(l))
      found == {i \in DOMAIN lines : ContainsTab(lines[i]) /\ _is_data_line(lines[i])}
  IN IF Len(tab_lines) < 2 THEN <<>>
     ELSE LET first_tab_idx == CHOOSE i \in found : \A o \in found : i <= o
              first_cells == lines[first_tab_idx].cells
              has_header == HasHeaderKeyword(first_cells, TAB_HEADER_KEYWORDS)
              data_start == IF has_header THEN first_tab_idx + 1 ELSE first_tab_idx
              expected_cols == Len(first_cells)
              rows == TabRows(SubSeq(lines, data_start, Len(lines)), expected_cols)
              headers == IF has_header THEN first_cells
                         ELSE _synthesize_headers(expected_cols,
                                                  SubSeq(rows, 1, Min(10, Len(rows))))
          IN IF expected_cols < _MIN_COLS THEN <<>>
             ELSE IF rows = <<>> THEN <<>>
             ELSE <<ExtractedTable(1, 0, headers, rows)>>

\* ---- fixed-width

\* The runs of a tab-separated line between two or more consecutive tabs: an
\* empty cell ends a run, single tabs stay inside it.
RECURSIVE TabRuns(_, _)
TabRuns(cells, run) ==
  LET done == IF run = "" THEN <<>> ELSE <<run>>
  IN IF cells = <<>> THEN done
     ELSE IF Head(cells) = "" THEN done \o TabRuns(Tail(cells), "")
     ELSE TabRuns(Tail(cells), IF run = "" THEN Head(cells) ELSE run \o "\t" \o Head(cells))

\* re.split(r"\s{2,}", line.strip()) without the empty pieces.  A pipe line
\* ("a | b", an empty cell written "| |") and a line of prose hold no run of two
\* spaces and stay one cell.
FixedCells(line) ==
  CASE line.kind = "fixed" -> line.cells
    [] line.kind = "tab" -> TabRuns(line.cells, "")
    [] line.kind = "pipe" -> <<"|">>
    [] OTHER -> line.cells

\* The lines with at least _MIN_COLS cells, as cell lists (lines 255-260).
RECURSIVE ParsedLines(_)
ParsedLines(data_lines) ==
  IF data_lines = <<>> THEN <<>>
  ELSE LET cells == FixedCells(Head(data_lines))
       IN (IF Len(cells) >= _MIN_COLS THEN <<cells>> ELSE <<>>) \o ParsedLines(Tail(data_lines))

\* max(set(col_counts), key=col_counts.count): a set of small integers is
\* iterated in ascending order and max keeps the first of the most frequent.
ModalCols(parsed_lines) ==
  LET counts == {Len(parsed_lines[k]) : k \in DOMAIN parsed_lines}
      freq(c) == Cardinality({k \in DOMAIN parsed_lines : Len(parsed_lines[k]) = c})
      most == {c \in counts : \A o \in counts : freq(c) >= freq(o)}
  IN CHOOSE c \in most : \A o \in most : c <= o

_try_fixed_width(lines) ==
  LET data_lines == SelectSeq(lines, _is_data_line)
      multi_space_lines ==
        SelectSeq(SubSeq(data_lines, 1, Min(SCAN_LINES, Len(data_lines))),
                  LAMBDA l : Len(FixedCells(l)) >= 2)
      parsed_lines == ParsedLines(data_lines)
  IN IF Len(data_lines) < 2 \/ Len(multi_space_lines) < 2 \/ Len(parsed_lines) < 2 THEN <<>>
     ELSE LET modal_cols == ModalCols(parsed_lines)
              filtered == SelectSeq(parsed_lines, LAMBDA row : Abs(Len(row) - modal_cols) <= 1)
          IN IF Len(filtered) < 2 THEN <<>>
             ELSE LET first_row == filtered[1]
                      has_header == HasHeaderKeyword(first_row, FIXED_HEADER_KEYWORDS)
                      data_rows == IF has_header THEN Tail(filtered) ELSE filtered
                      target_cols == IF has_header THEN Len(first_row) ELSE modal_cols
                      rows == [k \in DOMAIN data_rows |-> PadOrTrim(data_rows[k], target_cols)]
                      headers == IF has_header THEN first_row
                                 ELSE _synthesize_headers(modal_cols,
                                                          SubSeq(rows, 1, Min(10, Len(rows))))
                  IN IF rows = <<>> THEN <<>>
                     ELSE <<ExtractedTable(1, 0, headers, rows)>>

\* The first strategy of `order` that returns a table.
RECURSIVE TryStrategies(_, _)
TryStrategies(order, lines) ==
  IF order = <<>> THEN <<>>
  ELSE LET result_ == CASE Head(order) = "pipe" -> _try_pipe_delimited(lines)
                        [] Head(order) = "tab" -> _try_tab_delimited(lines)
                        [] OTHER -> _try_fixed_width(lines)
       IN IF result_ # <<>> THEN result_ ELSE TryStrategies(Tail(order), lines)

\* parse_text_tables: text.splitlines() is `lines`; an empty or whitespace-only
\* text has no line that is not blank.
parse_text_tables(lines, emr_source) ==
  IF \A k \in DOMAIN lines : lines[k].kind = "blank" THEN <<>>
  ELSE IF emr_source = "meditech" THEN TryStrategies(<<"fixed", "pipe", "tab">>, lines)
  ELSE TryStrategies(<<"pipe", "tab", "fixed">>, lines)

\* ---- PDF table extractor (extraction/table_extractor.py)

\* str(cell or "").strip() for a pdfplumber cell: <<>> is None.
CellText(cell) == IF cell = <<>> THEN "" ELSE Strip(cell[1])

\* The loop over the tables of one page (lines 21-38).
RECURSIVE PageTables(_, _, _)
PageTables(page_num, tables, table_idx) ==
  IF table_idx >= Len(tables) THEN <<>>
  ELSE LET table == tables[table_idx + 1]
           rest == PageTables(page_num, tables, table_idx + 1)
       IN IF Len(table) < 2 THEN rest
          ELSE LET headers == [k \in DOMAIN table[1] |-> CellText(table[1][k])]
                   cleaned == [r \in 1..(Len(table) - 1) |->
                                 [k \in DOMAIN table[r + 1] |-> CellText(table[r + 1][k])]]
                   rows == SelectSeq(cleaned, LAMBDA row : \E k \in DOMAIN row : row[k] # "")
               IN IF rows # <<>>
                    THEN <<ExtractedTable(page_num, table_idx, headers, rows)>> \o rest
                  ELSE rest

\* TableExtractor.extract_tables: pdf_pages[i] is what page i's
\* extract_tables() returns.
RECURSIVE TableExtractor_extract_tables(_, _)
TableExtractor_extract_tables(pdf_pages, page_numbers) ==
  IF page_numbers = <<>> THEN <<>>
  ELSE LET page_num == Head(page_numbers)
           idx == page_num - 1
           rest == TableExtractor_extract_tables(pdf_pages, Tail(page_numbers))
       IN IF idx < 0 \/ idx >= Len(pdf_pages) THEN rest
          ELSE PageTables(page_num, pdf_pages[idx + 1], 0) \o rest

\* ---- the texts and PDF tables the extractors are run on

MaxLines == 4
MaxGridRows == 2

PipePool ==
  { PipeLine(<<"Test", "Result", "Units">>),
    PipeLine(<<"Glucose", "95", "mg/dL">>),
    PipeLine(<<"", "Hgb", "14", "%", "">>),
    PipeLine(<<"pH", "7.4">>),
    PipeLine(<<"Comment", "", "">>),
    PipeLine(<<"Na", "140", "mg/dL", "H", "x">>),
    SeparatorLine }

TabPool ==
  { TabLine(<<"Test", "Result">>),
    TabLine(<<"Glucose", "95">>),
    TabLine(<<"Hgb", "14", "%">>),
    TabLine(<<"Na", "", "H">>),
    TabLine(<<"K", "4.0", "mg/dL", "70-100">>),
    BlankLine }

FixedPool ==
  { FixedLine(<<"Test", "Result", "Units">>),
    FixedLine(<<"Glucose", "95">>),
    FixedLine(<<"Hgb", "14", "%">>),
    FixedLine(<<"Na", "140", "mg/dL", "H">>),
    ProseLine("Hgb"),
    SeparatorLine }

TextsOver(pool) == UNION {[1..n -> pool] : n \in 0..MaxLines}

PastedTexts == TextsOver(PipePool) \cup TextsOver(TabPool) \cup TextsOver(FixedPool)

EmrSources == {"none", "epic", "meditech"}

\* pdfplumber returns every table as a grid: one cell, possibly None, per
\* column in every row.
GridCells == {<<>>, <<" Hgb ">>, <<"14">>}

Grids == UNION {[1..h -> [1..w -> GridCells]] : h \in 0..MaxGridRows, w \in 1..2}

PdfInputs ==
  {[pdf_pages |-> <<<<g>>>>, page_numbers |-> p] : g \in Grids, p \in {<<1>>, <<0, 1, 2>>}}
    \cup {[pdf_pages |-> <<<<>>, <<g, g>>>>, page_numbers |-> <<2>>] : g \in Grids}

TableCall(src, input, pc_, tables) == [src |-> src, input |-> input, pc |-> pc_, tables |-> tables]

\* POST with pasted text: parse_text_tables(text, emr_source).
ParseTextTables ==
  /\ tab.pc = "start" /\ tab.src = "text"
  /\ tab' = TableCall("text", tab.input, "done",
                      parse_text_tables(tab.input.lines, tab.input.emr_source))
  /\ UNCHANGED vars_not_tab

\* TableExtractor(file_path).extract_tables(page_numbers)
ExtractPdfTables ==
  /\ tab.pc = "start" /\ tab.src = "pdf"
  /\ tab' = TableCall("pdf", tab.input, "done",
                      TableExtractor_extract_tables(tab.input.pdf_pages, tab.input.page_numbers))
  /\ UNCHANGED vars_not_tab

InitTables ==
  /\ \/ \E lines \in PastedTexts, emr_source \in EmrSources :
          tab = TableCall("text", [lines |-> lines, emr_source |-> emr_source], "start", <<>>)
     \/ \E input \in PdfInputs : tab = TableCall("pdf", input, "start", <<>>)
  /\ IdleCls /\ IdlePipe /\ IdleLabs /\ IdleReg
  /\ IdleReq /\ IdleRep /\ IdleEcho /\ IdleMulti /\ IdleZone /\ IdlePsm

NextTables ==
  \/ ParseTextTables
  \/ ExtractPdfTables

SpecTables == InitTables /\ [][NextTables]_vars

----------------------------------------------------------------------------
\* Properties of the table extractors

Strategies == {"pipe", "tab", "fixed"}

\* The cells strategy s reads from a data line, <<>> when it ignores the line.
SourceCells(s, line) ==
  CASE s = "pipe" -> IF ContainsPipe(line) THEN _split_pipe(line) ELSE <<>>
    [] s = "tab" -> IF ContainsTab(line) THEN line.cells ELSE <<>>
    [] OTHER -> IF Len(FixedCells(line)) >= _MIN_COLS THEN FixedCells(line) ELSE <<>>

\* The column count strategy s expects of a row: the header's for pipe and
\* tab, the most frequent one among the lines for fixed-width.
ExpectedCols(s, lines, headers) ==
  IF s = "fixed" THEN ModalCols(ParsedLines(SelectSeq(lines, _is_data_line)))
  ELSE Len(headers)

\* row is cells, padded with empty cells or cut, at n cells.
FitsTo(row, cells, n) ==
  /\ Len(row) = n
  /\ \A j \in 1..n : row[j] = IF j <= Len(cells) THEN cells[j] ELSE ""

WrittenCells(line) ==
  IF line.kind = "pipe" /\ Len(line.cells) >= 3 /\ Head(line.cells) = ""
       /\ line.cells[Len(line.cells)] = ""
    THEN SubSeq(line.cells, 2, Len(line.cells) - 1)
  ELSE line.cells

\* lines is a synthetic table in style `kind`: a header with a recognizable
\* keyword, then data rows of that style, each within one column of the
\* header's cell count, with blank or separator lines anywhere after the header.
SyntheticTable(lines, kind) ==
  /\ Len(lines) >= 2
  /\ lines[1].kind = kind
  /\ HasHeaderKeyword(WrittenCells(lines[1]), FIXED_HEADER_KEYWORDS)
  /\ \A k \in 2..Len(lines) :
       \/ ~_is_data_line(lines[k])
       \/ /\ lines[k].kind = kind
          /\ Abs(Len(WrittenCells(lines[k])) - Len(WrittenCells(lines[1]))) <= 1
  /\ \E k \in 2..Len(lines) : _is_data_line(lines[k])

DataRows(lines) == {k \in 2..Len(lines) : _is_data_line(lines[k])}

\* C13: for a synthetic pipe-delimited or fixed-width table with a recognizable
\* header and N data rows, each within one column of the header's cell count,
\* parse_text_tables returns exactly one table with the header's cell count of
\* headers and N rows.
C13_RoundTripKeepsRows ==
  (tab.pc = "done" /\ tab.src = "text") =>
    \A kind \in {"pipe", "fixed"} :
      SyntheticTable(tab.input.lines, kind) =>
        /\ Len(tab.tables) = 1
        /\ Len(tab.tables[1].headers) = Len(WrittenCells(tab.input.lines[1]))
        /\ Len(tab.tables[1].rows) = Cardinality(DataRows(tab.input.lines))

----------------------------------------------------------------------------
\* Extraction entry points (api/routes.py, extraction/pipeline.py)

HTTPException(status_code, detail) == [status_code |-> status_code, detail |-> detail]

\* A response carrying an Extraction Result.
Extracted == [status_code |-> 200, detail |-> ""]

\* str.endswith
EndsWith(s, suffix) ==
  Len(s) >= Len(suffix) /\ SubSeq(s, Len(s) - Len(suffix) + 1, Len(s)) = suffix

\* An upload: filename and content_type are <<>> when absent; content is what
\* file.read() returns, as its first four bytes and whether a PDF reader can
\* open it.
Upload(filename, content_type, content) ==
  [filename |-> filename, content_type |-> content_type, content |-> content]

Content(size, magic, readable) == [size |-> size, magic |-> magic, readable |-> readable]

\* The checks of extract_pdf before the temporary file is written (lines
\* 37-54): the rejection, or <<>> when the upload passes.
ExtractPdfChecks(file) ==
  IF file.filename = <<>> \/ file.filename[1] = ""
       \/ ~EndsWith(Lower(file.filename[1]), ".pdf")
    THEN <<HTTPException(400, "Only PDF files are accepted.")>>
  ELSE IF file.content_type # <<>> /\ file.content_type[1] # ""
            /\ file.content_type[1] \notin {"application/pdf", "application/octet-stream"}
    THEN <<HTTPException(400, "Invalid content type: " \o file.content_type[1]
                                \o ". Expected application/pdf.")>>
  ELSE IF file.content.size = 0
    THEN <<HTTPException(400, "Uploaded file is empty.")>>
  ELSE IF file.content.magic # "%PDF"
    THEN <<HTTPException(400, "File does not appear to be a valid PDF.")>>
  ELSE <<>>

\* ExtractionPipeline.extract_from_pdf on the temporary file, inside the
\* route's try: the response, and whether detection was started.
PdfPipelineOutcome(exists, content) ==
  IF ~exists
    THEN [response |-> HTTPException(422, "Failed to extract text from PDF: File not found: tmp.pdf"),
          work |-> FALSE]
  ELSE IF ~content.readable
    THEN [response |-> HTTPException(422, "Failed to extract text from PDF: No /Root object"),
          work |-> TRUE]
  ELSE [response |-> Extracted, work |-> TRUE]

ExtractTextChecks_emptyOnly(body_text) ==
  IF body_text = ""
    THEN <<HTTPException(400, "Text content is required and cannot be empty.")>>
  ELSE <<>>

\* The check of extract_text (lines 80-85); body_text is body.get("text", "").
ExtractTextChecks(body_text) ==
  IF body_text = "" \/ Strip(body_text) = ""
    THEN <<HTTPException(400, "Text content is required and cannot be empty.")>>
  ELSE <<>>

\* tmp is the temporary file of extract_pdf: "none" before it is written, then
\* "written", or "missing" when it was gone by the time the pipeline opened it.
Request(route, input, pc_, response, work) ==
  [route |-> route, input |-> input, pc |-> pc_, tmp |-> "none",
   response |-> response, work |-> work]



Filenames == {<<>>, <<"">>, <<"report.pdf">>, <<"REPORT.PDF">>, <<"scan.png">>}
ContentTypes == {<<>>, <<"">>, <<"application/pdf">>, <<"application/octet-stream">>, <<"image/png">>}
Contents ==
  { Content(0, "", FALSE),            \* an empty file
    Content(2, "%P", FALSE),          \* shorter than the signature
    Content(64, ".PNG", FALSE),    \* not a PDF
    Content(64, "%PDF", FALSE),       \* the signature, then damaged
    Content(64, "%PDF", TRUE) }
Uploads == {Upload(f, t, c) : f \in Filenames, t \in ContentTypes, c \in Contents}

BodyTexts == {"", " ", " \t\n", "Glucose 95", "  LVEF: 55-60%\n"}

\* POST /extract/pdf up to the call of the pipeline.
ExtractPdfRoute ==
  /\ req.pc = "route" /\ req.route = "pdf"
  /\ LET rejected == ExtractPdfChecks(req.input)
     IN req' = IF rejected # <<>> THEN [req EXCEPT !.pc = "done", !.response = rejected[1]]
               ELSE [req EXCEPT !.pc = "pipeline", !.tmp = "written"]
  /\ UNCHANGED vars_not_req

\* pipeline.extract_from_pdf(tmp_path); the temporary file may be gone.
ExtractFromPdf ==
  /\ req.pc = "pipeline"
  /\ \E exists \in BOOLEAN :
       LET out == PdfPipelineOutcome(exists, req.input.content)
       IN req' = [req EXCEPT !.pc = "done", !.response = out.response, !.work = out.work,
                             !.tmp = IF exists THEN "written" ELSE "missing"]
  /\ UNCHANGED vars_not_req

\* POST /extract/text: the check, then pipeline.extract_from_text.
ExtractTextRoute ==
  /\ req.pc = "route" /\ req.route = "text"
  /\ LET rejected == ExtractTextChecks(req.input)
     IN req' = IF rejected # <<>> THEN [req EXCEPT !.pc = "done", !.response = rejected[1]]
               ELSE [req EXCEPT !.pc = "done", !.response = Extracted, !.work = TRUE]
  /\ UNCHANGED vars_not_req

InitIntake ==
  /\ \/ \E file \in Uploads : req = Request("pdf", file, "route", Extracted, FALSE)
     \/ \E text \in BodyTexts : req = Request("text", text, "route", Extracted, FALSE)
  /\ IdleTab /\ IdleRep /\ IdleEcho /\ IdleMulti /\ IdleZone /\ IdlePsm
  /\ IdleCls /\ IdlePipe /\ IdleLabs /\ IdleReg

NextIntake ==
  \/ ExtractPdfRoute
  \/ ExtractFromPdf
  \/ ExtractTextRoute

SpecIntake == InitIntake /\ [][NextIntake]_vars

\* ---- properties

\* The input is one the entry points must refuse.
InputError ==
  \/ /\ req.route = "pdf"
     /\ \/ req.input.content.size = 0
        \/ req.input.content.magic # "%PDF"
  \/ /\ req.route = "text"
     /\ \A k \in 1..Len(req.input) : SubSeq(req.input, k, k) \in {" ", "\t", "\n", "\r"}

\* The temporary file was gone when the pipeline was called.
MissingFile == req.tmp = "missing"

----------------------------------------------------------------------------
\* Handlers' parse (labs/handler.py, labs/lab_extractor.py, stress/handler.py)

NO_MEASUREMENTS_WARNING ==
  "No measurements could be extracted. The report format may not be supported."

ParsedMeasurement(abbr, value, unit, c) ==
  [abbreviation |-> abbr, value |-> value, unit |-> unit, status |-> c.status,
   direction |-> c.direction, reference_range |-> c.reference_range_str]

ParsedReport(test_type, measurements, warns) ==
  [kind |-> "ParsedReport", test_type |-> test_type, measurements |-> measurements,
   warnings |-> warns]

\* What Python raises for a call with an argument the signature does not have.
TypeError == [kind |-> "TypeError"]

\* ---- lab classifier (labs/reference_ranges.py): a normal interval per code,
\* and per sex where the code defines one.

Normal(nmin, nmax, u) ==
  RangeThresholds(<<nmin>>, <<nmax>>, <<>>, <<>>, <<>>, <<>>, <<>>, <<>>, u)

Labs_REFERENCE_RANGES ==
  ("GLU" :> [any |-> Normal(7000, 10000, "mg/dL"), female |-> <<>>, male |-> <<>>])
  @@ ("WBC" :> [any |-> Normal(400, 1100, "K/uL"), female |-> <<>>, male |-> <<>>])
  @@ ("PLT" :> [any |-> Normal(15000, 40000, "K/uL"),
                female |-> <<Normal(15700, 37100, "K/uL")>>,
                male |-> <<Normal(13500, 31700, "K/uL")>>])

\* The thresholds of a code for a sex: the sex-qualified ones where the code
\* defines them, the sex-agnostic ones otherwise.
Labs_thresholds(abbreviation, gender) ==
  LET entry == Labs_REFERENCE_RANGES[abbreviation]
  IN IF gender # <<>> /\ gender[1] \in {"female", "male"} /\ entry[gender[1]] # <<>>
       THEN entry[gender[1]][1]
       ELSE entry.any

Labs_classify_measurement(abbreviation, value, gender) ==
  IF abbreviation \notin DOMAIN Labs_REFERENCE_RANGES
    THEN ClassificationResult("undetermined", "normal", NoReferenceRange)
  ELSE LET rr == Labs_thresholds(abbreviation, gender)
           ref_str == FormatReferenceRange(rr, "<=")
       IN IF value > rr.normal_max[1]
            THEN ClassificationResult("mildly_abnormal", "above_normal", ref_str)
          ELSE IF value < rr.normal_min[1]
            THEN ClassificationResult("mildly_abnormal", "below_normal", ref_str)
          ELSE ClassificationResult("normal", "normal", ref_str)

\* ---- labs

\* labs/measurements.py extract_measurements: tables, then text, then units.
Labs_extract_measurements(text, rows) ==
  LET table_results == _extract_from_tables(rows)
      seen == {table_results[k].abbreviation : k \in DOMAIN table_results}
      text_results == _extract_from_text(text, seen)
  IN _normalize_units(table_results \o text_results)

NoMeasurementsWarning_always(parsed_measurements) == <<NO_MEASUREMENTS_WARNING>>

\* "if not parsed_measurements: warnings.append(...)"
NoMeasurementsWarning(parsed_measurements) ==
  IF parsed_measurements = <<>> THEN <<NO_MEASUREMENTS_WARNING>> ELSE <<>>

\* LabResultsHandler.parse(extraction_result): it has no gender parameter and
\* classifies without one.
LabResultsHandler_parse(doc) ==
  LET raw_measurements == Labs_extract_measurements(doc.text, doc.rows)
      parsed_measurements ==
        [k \in DOMAIN raw_measurements |->
           LET m == raw_measurements[k]
           IN ParsedMeasurement(m.abbreviation, m.value, m.unit,
                                Labs_classify_measurement(m.abbreviation, m.value, <<>>))]
  IN ParsedReport("lab_results", parsed_measurements,
                  NoMeasurementsWarning(parsed_measurements))

\* extract_lab_measurements(text, gender): text only, no tables.
extract_lab_measurements(text, gender) ==
  LET raw == Labs_extract_measurements(text, <<>>)
  IN [k \in DOMAIN raw |->
        ParsedMeasurement(raw[k].abbreviation, raw[k].value, raw[k].unit,
                          Labs_classify_measurement(raw[k].abbreviation, raw[k].value, gender))]

\* ---- stress

Stress_MEASUREMENT_DEFS ==
  << MeasurementDef("METs", "METs", 100, 2500),
     MeasurementDef("Peak_HR", "bpm", 5000, 25000) >>

\* stress/measurements.py extract_measurements: per definition, the first
\* pattern whose match lies within the bounds.  matches[code] holds what each
\* pattern of the code finds in the text, <<>> for no match.
RECURSIVE Stress_FirstInBounds(_, _)
Stress_FirstInBounds(mdef, found) ==
  IF found = <<>> THEN <<>>
  ELSE IF found[1] # <<>> /\ InBounds(mdef, found[1][1])
    THEN <<[abbreviation |-> mdef.abbreviation, value |-> found[1][1], unit |-> mdef.unit]>>
  ELSE Stress_FirstInBounds(mdef, Tail(found))

RECURSIVE Stress_Defs(_, _)
Stress_Defs(defs, matches) ==
  IF defs = <<>> THEN <<>>
  ELSE Stress_FirstInBounds(defs[1], matches[defs[1].abbreviation])
         \o Stress_Defs(Tail(defs), matches)

Stress_extract_measurements(matches) == Stress_Defs(Stress_MEASUREMENT_DEFS, matches)

_SUBTYPES ==
  [is_pharma \in BOOLEAN, modality \in {"ecg", "spect", "pet", "echo"} |->
     CASE modality = "ecg"   -> IF is_pharma THEN "pharma_spect_stress" ELSE "exercise_treadmill_test"
       [] modality = "spect" -> IF is_pharma THEN "pharma_spect_stress" ELSE "exercise_spect_stress"
       [] modality = "pet"   -> IF is_pharma THEN "pharma_pet_stress" ELSE "exercise_pet_stress"
       [] modality = "echo"  -> IF is_pharma THEN "pharma_stress_echo" ELSE "exercise_stress_echo"]

\* The modality chosen with SPECT ahead of PET.
_classify_subtype_spectFirst(found) ==
  LET is_pharma == "pharma" \in found
      modality == IF "spect" \in found THEN "spect"
                  ELSE IF "pet" \in found THEN "pet"
                  ELSE IF "echo" \in found THEN "echo"
                  ELSE "ecg"
  IN _SUBTYPES[is_pharma, modality]

\* found: the keyword lists with a hit in the lowered text, among
\* "pharma" (_PHARMA_AGENTS), "pet", "spect" and "echo".
_classify_subtype(found) ==
  LET is_pharma == "pharma" \in found
      modality == IF "pet" \in found THEN "pet"
                  ELSE IF "spect" \in found THEN "spect"
                  ELSE IF "echo" \in found THEN "echo"
                  ELSE "ecg"
  IN _SUBTYPES[is_pharma, modality]

\* StressTestHandler.parse(extraction_result, gender, age); doc.pet is what the
\* cardiac PET extractor returns for the text.
StressTestHandler_parse(doc, gender) ==
  LET subtype_id == _classify_subtype(doc.found)
      raw_measurements == Stress_extract_measurements(doc.matches)
      parsed_measurements ==
        IF subtype_id \in {"pharma_pet_stress", "exercise_pet_stress"}
          THEN doc.pet
          ELSE [k \in DOMAIN raw_measurements |->
                  LET m == raw_measurements[k]
                  IN ParsedMeasurement(m.abbreviation, m.value, m.unit,
                                       Stress_classify_measurement(m.abbreviation, m.value))]
  IN ParsedReport(subtype_id, parsed_measurements,
                  NoMeasurementsWarning(parsed_measurements))

\* ---- the documents parsed

ParseTexts ==
  { [GLU |-> <<>>, WBC |-> <<>>, WBC_CUMM |-> <<>>, PLT |-> <<>>],
    [GLU |-> <<<<Reading(999, FALSE)>>, <<>>, <<Reading(9000, FALSE)>>>>, WBC |-> <<>>,
     WBC_CUMM |-> <<>>, PLT |-> <<<<Reading(200001, FALSE)>>, <<Reading(25000, FALSE)>>>>],
    [GLU |-> <<>>, WBC |-> <<>>, WBC_CUMM |-> <<>>, PLT |-> <<<<Reading(200001, FALSE)>>>>] }

LabDocs == [rows : LabTables, text : ParseTexts]

StressMatches ==
  [METs : {<<>>, <<<<50>>, <<>>>>, <<<<>>, <<1010>>>>},
   Peak_HR : {<<>>, <<<<15000>>>>, <<<<30000>>>>}]

PetMeasurements ==
  {<<>>, <<ParsedMeasurement("Global_CFR", 210, "",
                             ClassificationResult("normal", "normal", <<">= 2.0">>))>>}

StressDocs ==
  [found : SUBSET {"pharma", "pet", "spect", "echo"}, matches : StressMatches,
   pet : PetMeasurements]

Genders == {<<>>, <<"female">>, <<"male">>}

ParseCall(handler, doc, gender, pc_, out) ==
  [handler |-> handler, doc |-> doc, gender |-> gender, pc |-> pc_, out |-> out]

\* handler.parse on the lab handler; a caller passing gender gets TypeError.
LabResultsHandlerParse ==
  /\ rep.pc = "start" /\ rep.handler = "lab_results"
  /\ rep' = [rep EXCEPT !.pc = "done",
                        !.out = IF rep.gender # <<>> THEN TypeError
                                ELSE LabResultsHandler_parse(rep.doc)]
  /\ UNCHANGED vars_not_rep

StressTestHandlerParse ==
  /\ rep.pc = "start" /\ rep.handler = "stress_test"
  /\ rep' = [rep EXCEPT !.pc = "done", !.out = StressTestHandler_parse(rep.doc, rep.gender)]
  /\ UNCHANGED vars_not_rep

ExtractLabMeasurements ==
  /\ rep.pc = "start" /\ rep.handler = "extract_lab_measurements"
  /\ rep' = [rep EXCEPT !.pc = "done",
                        !.out = [kind |-> "measurements",
                                 measurements |-> extract_lab_measurements(rep.doc.text, rep.gender)]]
  /\ UNCHANGED vars_not_rep

InitParse ==
  /\ \/ \E doc \in LabDocs, gender \in Genders :
          rep = ParseCall("lab_results", doc, gender, "start", <<>>)
     \/ \E doc \in StressDocs, gender \in Genders :
          rep = ParseCall("stress_test", doc, gender, "start", <<>>)
     \/ \E text \in ParseTexts, gender \in Genders :
          rep = ParseCall("extract_lab_measurements", [text |-> text], gender, "start", <<>>)
  /\ IdleTab /\ IdleReq /\ IdleEcho /\ IdleMulti /\ IdleZone /\ IdlePsm
  /\ IdleCls /\ IdlePipe /\ IdleLabs /\ IdleReg

NextParse ==
  \/ LabResultsHandlerParse
  \/ StressTestHandlerParse
  \/ ExtractLabMeasurements

SpecParse == InitParse /\ [][NextParse]_vars

\* ---- properties

\* A handler's parse ran on arguments its signature takes.
Parsed == rep.pc = "done" /\ rep.handler \in {"lab_results", "stress_test"} /\ rep.out # TypeError

\* What the extractors find in the document parsed.
Extractable ==
  IF rep.handler = "lab_results" THEN Labs_extract_measurements(rep.doc.text, rep.doc.rows)
  ELSE IF _classify_subtype(rep.doc.found) \in {"pharma_pet_stress", "exercise_pet_stress"}
    THEN rep.doc.pet
  ELSE Stress_extract_measurements(rep.doc.matches)

\* C15: parse returns a Parsed Report whatever was extracted; the report has
\* as many measurements as were extracted, and it carries the warning that no
\* measurements could be extracted exactly when there are none.
C15_EmptyParseWarns ==
  Parsed =>
    /\ rep.out.kind = "ParsedReport"
    /\ Len(rep.out.measurements) = Len(Extractable)
    /\ Extractable = <<>> => rep.out.warnings = <<NO_MEASUREMENTS_WARNING>>
    /\ Extractable # <<>> => NO_MEASUREMENTS_WARNING \notin Range(rep.out.warnings)

\* A lab document whose only value is outside the bounds of its code: nothing
\* extracted, a report with the warning.
C15_Witness ==
  /\ Parsed /\ rep.handler = "lab_results"
  /\ Len(rep.doc.rows) = 1 /\ rep.doc.rows[1].abbreviation = "GLU"
  /\ rep.doc.rows[1].value = <<90001>>
  /\ rep.out.measurements = <<>>
  /\ rep.out.warnings = <<NO_MEASUREMENTS_WARNING>>

\* The classification a parsed measurement carries.
ClassificationOf(m) == ClassificationResult(m.status, m.direction, m.reference_range)

\* C19: when a sex is supplied, the lab handler's parse and the text-only lab
\* extractor both return measurements, each classified with the thresholds of
\* its code for that sex (the sex-qualified ones where the code defines them,
\* the sex-agnostic ones otherwise).
C19_SexReachesClassifier ==
  (rep.pc = "done" /\ rep.handler \in {"lab_results", "extract_lab_measurements"}
     /\ rep.gender # <<>>) =>
    /\ rep.out.kind \in {"ParsedReport", "measurements"}
    /\ \A k \in DOMAIN rep.out.measurements :
         LET m == rep.out.measurements[k]
         IN ClassificationOf(m) = Labs_classify_measurement(m.abbreviation, m.value, rep.gender)

----------------------------------------------------------------------------
\* Echocardiogram measurement extractor (echo/measurements.py)

\* A report text as the statements of the ejection fraction it holds, in text
\* order: label, what links the label to the number, the number, and for a
\* range "a-b" the second number.  Numbers are in hundredths.
EfStatement(label, link, low, high) ==
  [label |-> label, link |-> link, low |-> low, high |-> high]

\* _SEP, "[\s:=]+\s*": the links made of blanks, colons and equals signs.
SepLinks == {": ", " ", " = "}

\* "\s+(?:is\s+|of\s+|estimated\s+(?:at\s+)?)?" of the third LVEF pattern.
ProseLinks == {" ", " is ", " of ", " estimated at "}

\* _EF_RANGE_RE matches the statement.
MatchesEfRange(stmt) ==
  /\ stmt.label \in {"LVEF", "EF", "ejection fraction"}
  /\ stmt.link \in SepLinks
  /\ stmt.high # <<>>

\* The patterns of the LVEF definition, in order; each captures the first number.
LVEF_PATTERNS == <<"abbreviation", "spelled out", "prose">>

MatchesLvefPattern(pattern, stmt) ==
  CASE pattern = "abbreviation" -> stmt.label \in {"LVEF", "EF"} /\ stmt.link \in SepLinks
    [] pattern = "spelled out"  -> stmt.label = "ejection fraction" /\ stmt.link \in SepLinks
    [] pattern = "prose"        -> stmt.link \in ProseLinks

\* re.search: the first statement of the text the predicate holds of, or <<>>.
RECURSIVE SearchRange(_)
SearchRange(text) ==
  IF text = <<>> THEN <<>>
  ELSE IF MatchesEfRange(text[1]) THEN <<text[1]>>
  ELSE SearchRange(Tail(text))

RECURSIVE SearchPattern(_, _)
SearchPattern(pattern, text) ==
  IF text = <<>> THEN <<>>
  ELSE IF MatchesLvefPattern(pattern, text[1]) THEN <<text[1]>>
  ELSE SearchPattern(pattern, Tail(text))

Echo_LVEF == MeasurementDef("LVEF", "%", 500, 9500)

EchoMeasurement(abbr, value, unit) == [abbreviation |-> abbr, value |-> value, unit |-> unit]

\* round(midpoint, 1)
RoundToTenth(hundredths) == RoundHalfEven(hundredths, 10) * 10

\* The special case at the head of extract_measurements (lines 329-348).
EfRange(text) ==
  LET ef_range_match == SearchRange(text)
  IN IF ef_range_match = <<>> THEN <<>>
     ELSE LET low == ef_range_match[1].low
              high == ef_range_match[1].high[1]
          IN IF 500 <= low /\ low <= 9500 /\ 500 <= high /\ high <= 9500 /\ low < high
               THEN <<EchoMeasurement("LVEF", RoundToTenth((low + high) \div 2), "%")>>
               ELSE <<>>

\* The pattern loop for one definition (lines 354-378): the first pattern whose
\* first match is within the bounds.
RECURSIVE PatternLoop(_, _, _)
PatternLoop(mdef, patterns, text) ==
  IF patterns = <<>> THEN <<>>
  ELSE LET match == SearchPattern(patterns[1], text)
       IN IF match # <<>> /\ InBounds(mdef, match[1].low)
            THEN <<EchoMeasurement(mdef.abbreviation, match[1].low, mdef.unit)>>
            ELSE PatternLoop(mdef, Tail(patterns), text)

Echo_extract_measurements(text) ==
  LET results == EfRange(text)
      seen == {results[k].abbreviation : k \in DOMAIN results}
  IN IF "LVEF" \in seen THEN results
     ELSE results \o PatternLoop(Echo_LVEF, LVEF_PATTERNS, text)

\* ---- the report texts

MaxStatements == 2

EfWordings ==
  { <<"LVEF", ": ">>, <<"EF", " ">>, <<"EF", " = ">>, <<"ejection fraction", ": ">>,
    <<"ejection fraction", " is ">>, <<"LVEF", " estimated at ">> }

EfNumbers ==
  { <<5500, <<6000>>>>, <<5500, <<5550>>>>, <<500, <<9500>>>>, <<3000, <<>>>>,
    <<400, <<6000>>>>, <<6000, <<5500>>>>, <<5500, <<9600>>>>, <<9700, <<>>>> }

EfStatements ==
  {EfStatement(w[1], w[2], n[1], n[2]) : w \in EfWordings, n \in EfNumbers}

EchoTexts == UNION {[1..n -> EfStatements] : n \in 0..MaxStatements}

EchoCall(text, pc_, results) == [text |-> text, pc |-> pc_, results |-> results]

ExtractEchoMeasurements ==
  /\ echo.pc = "start"
  /\ echo' = [echo EXCEPT !.pc = "done", !.results = Echo_extract_measurements(echo.text)]
  /\ UNCHANGED vars_not_echo

InitEcho ==
  /\ \E text \in EchoTexts : echo = EchoCall(text, "start", <<>>)
  /\ IdleTab /\ IdleReq /\ IdleRep /\ IdleMulti /\ IdleZone /\ IdlePsm
  /\ IdleCls /\ IdlePipe /\ IdleLabs /\ IdleReg

NextEcho ==
  \/ ExtractEchoMeasurements

SpecEcho == InitEcho /\ [][NextEcho]_vars

\* ---- properties

\* The statements of the text that give the ejection fraction as a range a-b
\* with 5 <= a < b <= 95.
ValidRanges(text) ==
  { k \in DOMAIN text :
      /\ text[k].high # <<>>
      /\ 500 <= text[k].low /\ text[k].low < text[k].high[1] /\ text[k].high[1] <= 9500 }

\* The text gives the ejection fraction as one such range and as no other range.
GivesEfRange(text) ==
  /\ Cardinality(ValidRanges(text)) = 1
  /\ \A k \in DOMAIN text : text[k].high # <<>> => k \in ValidRanges(text)

TheRange(text) == text[CHOOSE k \in ValidRanges(text) : TRUE]

\* C18: for a text that gives the ejection fraction as a range a-b with
\* 5 <= a < b <= 95, the extractor returns exactly one LVEF measurement, in %,
\* whose value is (a+b)/2 to the nearest tenth; no single-value pattern's
\* reading stands in for it.
C18_EfRangeMidpoint ==
  (echo.pc = "done" /\ GivesEfRange(echo.text)) =>
    LET r == TheRange(echo.text)
        lvef == {k \in DOMAIN echo.results : echo.results[k].abbreviation = "LVEF"}
    IN /\ Cardinality(lvef) = 1
       /\ \A k \in lvef :
            /\ echo.results[k].unit = "%"
            /\ Abs(2 * echo.results[k].value - (r.low + r.high[1])) <= 10

----------------------------------------------------------------------------
\* detect_multi, get and the parse route (test_types/registry.py, api/routes.py)

\* The loop of detect_multi over self._handlers (lines 212-223), comparing with
\* ">" instead of ">=".
RECURSIVE MultiLoop_strictlyAbove(_, _, _)
MultiLoop_strictlyAbove(hs, doc, threshold) ==
  IF hs = <<>> THEN <<>>
  ELSE LET a == doc.answers[Head(hs).id]
           subtype == resolve_subtype(Head(hs).id, doc)
           resolved_id == IF subtype # <<>> THEN subtype[1] ELSE Head(hs).id
       IN (IF ~a.raises /\ a.confidence > threshold
             THEN <<Score(resolved_id, a.confidence)>> ELSE <<>>)
            \o MultiLoop_strictlyAbove(Tail(hs), doc, threshold)

\* The loop of detect_multi over self._handlers (lines 212-223).
RECURSIVE MultiLoop(_, _, _)
MultiLoop(hs, doc, threshold) ==
  IF hs = <<>> THEN <<>>
  ELSE LET a == doc.answers[Head(hs).id]
           subtype == resolve_subtype(Head(hs).id, doc)
           resolved_id == IF subtype # <<>> THEN subtype[1] ELSE Head(hs).id
       IN (IF ~a.raises /\ a.confidence >= threshold
             THEN <<Score(resolved_id, a.confidence)>> ELSE <<>>)
            \o MultiLoop(Tail(hs), doc, threshold)

\* TestTypeRegistry.detect_multi: the list of (type_id, confidence).
detect_multi(doc, threshold) ==
  LET header == detect_from_header(doc)
      results == IF header.id # <<>> THEN <<Score(header.id[1], header.confidence)>> ELSE <<>>
  IN SortByConfidence(results \o MultiLoop(_handlers, doc, threshold))

\* TestTypeRegistry.get: the id of the handler returned, <<>> for None.
get(type_id) ==
  IF type_id \in _subtype_parents THEN <<type_id>>
  ELSE IF type_id \in HandlerIds THEN <<type_id>>
  ELSE <<>>

\* The thresholds callers pass: the default and the handlers' scores.
Thresholds == {300, 500, 900}

\* detect_multi for every document and threshold of the model, evaluated once.
MultiOutcomes ==
  [doc \in RegistryDocuments |-> [t \in Thresholds |-> detect_multi(doc, t)]]

MultiCall(doc, cache, threshold, pc_) ==
  [doc |-> doc, cache |-> cache, threshold |-> threshold, pc |-> pc_,
   listed |-> <<>>, detected |-> DetectResult(<<>>, 0, FALSE), response |-> "none"]

\* registry.detect_multi(extraction_result, threshold)
DetectMulti ==
  /\ multi.pc = "start"
  /\ multi' = [multi EXCEPT !.pc = "listed",
                            !.listed = MultiOutcomes[multi.doc][multi.threshold]]
  /\ UNCHANGED vars_not_multi

\* parse_report without a test_type (routes.py:152-160): registry.detect, and
\* HTTP 422 when nothing is detected or the confidence is below 0.2.
ParseReportDetect ==
  /\ multi.pc = "listed"
  /\ LET d == DetectOutcomes[multi.doc][multi.cache].result
     IN multi' = [multi EXCEPT !.detected = d,
                               !.pc = IF d.id = <<>> \/ d.confidence < 200 THEN "done" ELSE "detected",
                               !.response = IF d.id = <<>> \/ d.confidence < 200 THEN "422" ELSE "none"]
  /\ UNCHANGED vars_not_multi

\* parse_report (routes.py:162-176): registry.get, HTTP 404 for an unknown type,
\* otherwise handler.parse.
ParseReportGet ==
  /\ multi.pc = "detected"
  /\ multi' = [multi EXCEPT !.pc = "done",
                            !.response = IF get(multi.detected.id[1]) = <<>> THEN "404"
                                         ELSE "parsed"]
  /\ UNCHANGED vars_not_multi

InitMulti ==
  /\ \E doc \in RegistryDocuments, cache \in SUBSET CorrectionRows, threshold \in Thresholds :
       multi = MultiCall(doc, cache, threshold, "start")
  /\ IdleTab /\ IdleReq /\ IdleRep /\ IdleEcho /\ IdleZone /\ IdlePsm
  /\ IdleCls /\ IdlePipe /\ IdleLabs /\ IdleReg

NextMulti ==
  \/ DetectMulti
  \/ ParseReportDetect
  \/ ParseReportGet

SpecMulti == InitMulti /\ [][NextMulti]_vars

\* ---- properties

Listed == multi.pc # "start"

\* The handlers whose detect returns a score s with s >= threshold, or s > threshold.
ScoringAtOrAbove == {h \in HandlerIds : ~multi.doc.answers[h].raises
                                         /\ multi.doc.answers[h].confidence >= multi.threshold}
ScoringAbove == {h \in HandlerIds : ~multi.doc.answers[h].raises
                                     /\ multi.doc.answers[h].confidence > multi.threshold}

\* The id a handler is reported under.
ReportedId(h) ==
  LET subtype == resolve_subtype(h, multi.doc) IN IF subtype # <<>> THEN subtype[1] ELSE h

\* The entries for the handlers of a set, in registration order.
RECURSIVE EntriesOf(_, _)
EntriesOf(hs, S) ==
  IF hs = <<>> THEN <<>>
  ELSE (IF Head(hs).id \in S
          THEN <<Score(ReportedId(Head(hs).id), multi.doc.answers[Head(hs).id].confidence)>>
          ELSE <<>>) \o EntriesOf(Tail(hs), S)

\* The header pre-pass hit, as an entry.
HeaderEntry ==
  LET header == DetectOutcomes[multi.doc][{}].header
  IN IF header.id # <<>> THEN <<Score(header.id[1], header.confidence)>> ELSE <<>>

CountIn(list, e) == Cardinality({k \in DOMAIN list : list[k] = e})

SameEntries(a, b) == \A e \in Range(a) \cup Range(b) : CountIn(a, e) = CountIn(b, e)

Descending(list) ==
  \A i, j \in DOMAIN list : i < j => list[i].confidence >= list[j].confidence

C17_FirstIsPrimary ==
  (multi.pc \in {"detected", "done"} /\ multi.listed # <<>>) =>
    multi.detected.id = <<multi.listed[1].id>>

\* C20: every type id detect or detect_multi returns is known to get, and a
\* parse request that detected a type is not answered "unknown test type".
C20_DetectedIdsHaveHandlers ==
  /\ \A k \in DOMAIN multi.listed : get(multi.listed[k].id) # <<>>
  /\ multi.detected.id # <<>> => get(multi.detected.id[1]) # <<>>
  /\ multi.response # "404"

\* ---------------------------------------------------------------------------
\* Tier boundaries (carotid/reference_ranges.py docstring lines 1-19 against
\* _classify_above and _classify_below).

\* The tier of a value above the normal range when a value equal to a cutoff
\* stays in the lower tier.
TierAbove(value, rr) ==
  IF rr.moderate_max # <<>> /\ value > rr.moderate_max[1] THEN "severely_abnormal"
  ELSE IF rr.mild_max # <<>> /\ value > rr.mild_max[1] THEN "moderately_abnormal"
  ELSE "mildly_abnormal"

TierBelow(value, rr) ==
  IF rr.moderate_min # <<>> /\ value < rr.moderate_min[1] THEN "severely_abnormal"
  ELSE IF rr.mild_min # <<>> /\ value < rr.mild_min[1] THEN "moderately_abnormal"
  ELSE "mildly_abnormal"

CarotidCall == Called /\ cls.family = "carotid" /\ cls.abbreviation \in DOMAIN Carotid_REFERENCE_RANGES

\* C21: a carotid value inside [normal_min, normal_max] is normal, and a value
\* outside gets the tightest tier it strictly exceeds, so that a value equal to
\* a cutoff stays in the lower tier: an ICA PSV of exactly 230 cm/s is
\* moderately abnormal and only values above 230 are severe.
C21_CutoffStaysInLowerTier ==
  CarotidCall =>
    LET rr == Carotid_REFERENCE_RANGES[cls.abbreviation]
        above == rr.normal_max # <<>> /\ cls.value > rr.normal_max[1]
        below == ~above /\ rr.normal_min # <<>> /\ cls.value < rr.normal_min[1]
    IN cls.result.status =
         IF above THEN TierAbove(cls.value, rr)
         ELSE IF below THEN TierBelow(cls.value, rr)
         ELSE "normal"

----------------------------------------------------------------------------
\* detect on a registry that also holds a generic fallback handler
\* (test_types.generic.GenericTestType, registry.py:186-187)

\* The registered handlers followed by a generic handler.
DetectHandlers == _handlers \o <<Handler("generic", <<>>, TRUE)>>

DetectHandlerIds == {DetectHandlers[i].id : i \in DOMAIN DetectHandlers}

\* What a handler's detect returns: nothing, a low score, scores 0.15 apart
\* and the maximum.
DetectAnswers == {Answer(FALSE, c) : c \in {0, 50, 750, 900, 1000}}

\* The keyword lists of stress/handler.py with a hit in the text.
KeywordLists == {"pharma", "pet", "spect", "echo"}

\* Texts without a header label; subtype is what StressTestHandler.resolve_subtype
\* returns for the text.
DetectDocuments ==
  {Document(<<Filler(40)>>, a, _classify_subtype(f)) @@ [found |-> f] :
     a \in [DetectHandlerIds -> DetectAnswers], f \in SUBSET KeywordLists}

DetectCorrectionRows == CorrectionRows \cup {CorrectionRow("generic", "stress_test", 2)}

\* registry.detect(extraction_result)
Detect ==
  /\ ~det.called
  /\ det' = Detection(det.doc, detect_in(DetectHandlers, det.doc, correction_cache))
  /\ UNCHANGED <<correction_cache, cache_ts, now, db_rows, refresh_pc, loaded,
                 vars_cls, vars_pipe, vars_labs, vars_ext>>

InitDetect ==
  /\ \E doc \in DetectDocuments : det = [NoDet EXCEPT !.doc = doc]
  /\ correction_cache \in SUBSET DetectCorrectionRows
  /\ loaded = {correction_cache}
  /\ db_rows = correction_cache
  /\ cache_ts = 0
  /\ now = 0
  /\ refresh_pc = 0
  /\ IdleCls /\ IdlePipe /\ IdleLabs /\ IdleExt

NextDetect ==
  \/ Detect

SpecDetect == InitDetect /\ [][NextDetect]_vars

\* ---- properties

\* detect went through the handler loop and collected at least one score.
Scored == det.called /\ det.scores # <<>>

\* Number of corrections recorded away from / to a type in the cache.
CorrectionsAway(type_id) == SumCnt({r \in correction_cache : r.detected = type_id})
CorrectionsTo(type_id) == SumCnt({r \in correction_cache : r.corrected = type_id})

NetChange(type_id) ==
  Min(30 * CorrectionsTo(type_id), 100) - Min(30 * CorrectionsAway(type_id), 100)

\* C22: with a non-empty correction cache each handler's score changes by
\* -min(0.03 x corrections away from its type, 0.10) + min(0.03 x corrections to
\* its type, 0.10), a net change within [-0.10, +0.10], and the adjusted score
\* is clamped to [0, 1]; with an empty cache no score changes.
C22_CorrectionAdjustment ==
  Scored =>
    /\ Len(det.adjusted) = Len(det.scores)
    /\ \A k \in DOMAIN det.scores :
         LET raw == det.scores[k]
             new == det.adjusted[k]
         IN /\ new.id = raw.id
            /\ NetChange(raw.id) \in -100..100
            /\ new.confidence = Max(0, Min(1000, raw.confidence + NetChange(raw.id)))
            /\ correction_cache = {} => new.confidence = raw.confidence

\* Four corrections to stress_test are capped at +0.10 and two away from it cost
\* 0.06: 0.90 becomes 0.94; lab_results at 1.0 stays at 1.0 under a boost of 0.06.
C22_Witness ==
  /\ Scored
  /\ correction_cache = {CorrectionRow("lab_results", "stress_test", 4),
                         CorrectionRow("stress_test", "lab_results", 2),
                         CorrectionRow("generic", "stress_test", 2)}
  /\ \E k \in DOMAIN det.scores :
       /\ det.scores[k] = Score("stress_test", 900)
       /\ det.adjusted[k] = Score("stress_test", 940)
  /\ \E k \in DOMAIN det.scores :
       /\ det.scores[k] = Score("generic", 50)
       /\ det.adjusted[k] = Score("generic", 0)

\* What detect returns when the handler with score s wins.
ReturnedFor(s) ==
  LET subtype == resolve_subtype(s.id, det.doc)
  IN DetectResult(IF subtype # <<>> THEN subtype ELSE <<s.id>>, s.confidence, FALSE)

IsGeneric(id) == HandlerIn(DetectHandlers, id).generic

\* C23: once the adjusted scores are sorted in descending order, detect returns
\* the runner-up with the runner-up's confidence when the top two scores are
\* within 0.15 of each other, the leader is generic and the runner-up is
\* specialized; in every other case it returns the top-scoring handler.
C23_SpecializedPreferred ==
  Scored =>
    LET sorted == det.sorted
        prefer == /\ Len(sorted) >= 2
                  /\ sorted[1].confidence - sorted[2].confidence <= 150
                  /\ IsGeneric(sorted[1].id) /\ ~IsGeneric(sorted[2].id)
    IN /\ \A k \in 1..(Len(sorted) - 1) : sorted[k].confidence >= sorted[k + 1].confidence
       /\ det.result = ReturnedFor(IF prefer THEN sorted[2] ELSE sorted[1])

\* The score detect returns: the runner-up after a swap, otherwise the leader.
WinnerScore ==
  LET sorted == det.sorted
  IN IF /\ Len(sorted) >= 2
        /\ CloseScores(sorted[1].confidence, sorted[2].confidence)
        /\ IsGeneric(sorted[1].id) /\ ~IsGeneric(sorted[2].id)
       THEN sorted[2] ELSE sorted[1]

\* The stress family handler wins the detection.
FamilyWins == Scored /\ WinnerScore.id = "stress_test"

\* The modality of a text by the priority PET over SPECT over Echo over ECG-only.
PriorityModality(found) ==
  CASE "pet" \in found -> "pet"
    [] "pet" \notin found /\ "spect" \in found -> "spect"
    [] {"pet", "spect"} \cap found = {} /\ "echo" \in found -> "echo"
    [] {"pet", "spect", "echo"} \cap found = {} -> "ecg"

\* Range of _SUBTYPES.
SubtypeIds ==
  {_SUBTYPES[p, m] : p \in BOOLEAN, m \in {"ecg", "spect", "pet", "echo"}}

\* C24: when the stress family handler wins, detect returns the id of the one
\* subtype that _SUBTYPES gives for (pharmacologic agent present, modality), the
\* modality taken by the priority PET over SPECT over Echo over ECG-only, and
\* the confidence stays the family handler's adjusted score.
C24_FamilyResolvesToSubtype ==
  FamilyWins =>
    /\ det.result.id =
         <<_SUBTYPES["pharma" \in det.doc.found, PriorityModality(det.doc.found)]>>
    /\ det.result.id[1] \in SubtypeIds
    /\ det.result.confidence = WinnerScore.confidence
    /\ \E k \in DOMAIN det.adjusted :
         det.adjusted[k] = Score("stress_test", det.result.confidence)

\* A text with a pharmacologic agent and both PET and SPECT keywords, the stress
\* handler winning with 0.9 before a boost of 0.10.
C24_Witness ==
  /\ FamilyWins
  /\ det.doc.found = {"pharma", "pet", "spect"}
  /\ det.result.id = <<"pharma_pet_stress">>
  /\ det.doc.answers["stress_test"].confidence = 900
  /\ det.result.confidence = 1000

----------------------------------------------------------------------------
\* Startup and staleness of the correction cache

\* The module as imported: no refresh has stamped _cache_ts, none is in flight.
\* lifespan (main.py:11-18) calls get_db and get_keychain only, so it leaves
\* the module in this state.
NeverRefreshed ==
  /\ cache_ts = 0
  /\ correction_cache = {}
  /\ loaded = {{}}
  /\ refresh_pc = 0

\* C25: the cache is loaded at startup, so that while no refresh has run a
\* staleness check triggers a load whatever the monotonic clock reads; after a
\* refresh a check triggers exactly when more than 600 seconds have passed.
C25_FirstCheckAlwaysLoads ==
  /\ NeverRefreshed => ENABLED MaybeRefreshCorrections
  /\ ENABLED MaybeRefreshCorrections => now - cache_ts > _CACHE_TTL

\* C26: a refresh whose statistics read fails has no effect on the cache: every
\* step either installs the snapshot read from the store or leaves the cache
\* as it was, so a failed load never replaces a loaded cache by an empty one.
C26_FailedLoadKeepsCache ==
  [][\/ correction_cache' = correction_cache
     \/ correction_cache' = FillCache({}, db_rows)]_vars

----------------------------------------------------------------------------
\* Text zones and positional keyword weights (test_types/base.py)

\* A text is a sequence of paragraphs separated by a blank line.  A paragraph
\* has a length, is a comparison section ("Comparison: ...", matched whole by
\* _COMPARISON_RE) or other text, and may end with the keyword as a whole word.
Part(z, n, kw) == [zone |-> z, len |-> n, kw |-> kw]

TITLE_CHARS == 500

\* Offset of the character after paragraph k.
RECURSIVE PartEnd(_, _)
PartEnd(parts, k) ==
  IF k = 1 THEN parts[1].len ELSE PartEnd(parts, k - 1) + 2 + parts[k].len

\* split_text_zones: for each zone the paragraphs whose keyword occurrence lies
\* in it.  The title is the first 500 characters of the text, comparison the
\* matched sections, body the text with the matched spans blanked.
split_text_zones(parts) ==
  [title |-> {k \in DOMAIN parts : parts[k].kw /\ PartEnd(parts, k) <= TITLE_CHARS},
   comparison |-> {k \in DOMAIN parts : parts[k].kw /\ parts[k].zone = "comparison"},
   body |-> {k \in DOMAIN parts : parts[k].kw /\ parts[k].zone = "text"}]

_kw_match(hits) == hits # {}

\* keyword_zone_weight, in thousandths.
keyword_zone_weight(title, comparison, body) ==
  LET in_title == _kw_match(title)
      in_body == _kw_match(body)
      in_comp == _kw_match(comparison)
  IN IF in_title THEN 2000
     ELSE IF in_body /\ ~in_comp THEN 1000
     ELSE IF in_body THEN 1000
     ELSE IF in_comp THEN 100
     ELSE 0

MaxParts == 2

PartLengths == {40, 300, 600}

Parts == {Part(z, n, kw) : z \in {"text", "comparison"}, n \in PartLengths, kw \in BOOLEAN}

ZoneTexts == UNION {[1..n -> Parts] : n \in 1..MaxParts}

\* A handler's detect: split_text_zones(full_text), then keyword_zone_weight
\* for a keyword (coronary_diagram/handler.py:59, 116).
KeywordZoneWeight ==
  /\ zone.pc = "start"
  /\ LET z == split_text_zones(zone.parts)
     IN zone' = [zone EXCEPT !.pc = "done",
                             !.title = _kw_match(z.title),
                             !.comparison = _kw_match(z.comparison),
                             !.body = _kw_match(z.body),
                             !.weight = keyword_zone_weight(z.title, z.comparison, z.body)]
  /\ UNCHANGED vars_not_zone

InitZones ==
  /\ \E parts \in ZoneTexts : zone = [NoZoneCall EXCEPT !.parts = parts, !.pc = "start"]
  /\ IdleTab /\ IdleReq /\ IdleRep /\ IdleEcho /\ IdleMulti /\ IdlePsm
  /\ IdleCls /\ IdlePipe /\ IdleLabs /\ IdleReg

NextZones ==
  \/ KeywordZoneWeight

SpecZones == InitZones /\ [][NextZones]_vars

\* ---- properties

Weighted == zone.pc = "done"

\* The keyword occurs in the text, and only inside comparison sections.
OnlyInComparison ==
  /\ \E k \in DOMAIN zone.parts : zone.parts[k].kw
  /\ \A k \in DOMAIN zone.parts : zone.parts[k].kw => zone.parts[k].zone = "comparison"

\* C27: a keyword that occurs only inside a comparison section gets the weight
\* 0.1, never 1.0 or 2.0, wherever the section lies in the text, the first 500
\* characters included.
C27_ComparisonOnlyIsDiscounted ==
  (Weighted /\ OnlyInComparison) => zone.weight = 100

----------------------------------------------------------------------------
\* The page-segmentation strategies of one page (OCRExtractor._ocr_with_best_psm)

\* What the engine answers for one strategy: nothing at all, words read with
\* confidence 0, a misread below, at and above 0.6, 0.595 on average, or an
\* exception.
PsmAnswers ==
  { PsmAnswer(<<-1>>, <<>>),
    PsmAnswer(<<0, -1>>, <<"cell">>),
    PsmAnswer(<<45>>, <<"Reci">>),
    PsmAnswer(<<60>>, <<"HbAlc">>),
    PsmAnswer(<<59, 60>>, <<"mg/dI", "7">>),
    PsmAnswer(<<90, 92>>, <<"Reci", "cell">>),
    PsmRaises }

\* The answers for _PSM_MODES = [6, 3, 4], in that order.
PsmRuns == [1..3 -> PsmAnswers]

\* self._ocr_with_best_psm(processed)
OcrWithBestPsm ==
  /\ psm.pc = "start"
  /\ psm' = [psm EXCEPT !.pc = "done", !.out = _ocr_with_best_psm(psm.run)]
  /\ UNCHANGED vars_not_psm

InitPsm ==
  /\ \E run \in PsmRuns : psm = [NoPsmCall EXCEPT !.run = run, !.pc = "start"]
  /\ IdleTab /\ IdleReq /\ IdleRep /\ IdleEcho /\ IdleMulti /\ IdleZone
  /\ IdleCls /\ IdlePipe /\ IdleLabs /\ IdleReg

NextPsm ==
  \/ OcrWithBestPsm

SpecPsm == InitPsm /\ [][NextPsm]_vars

\* ---- properties

\* The call returned a text and a confidence.
PsmReturned == psm.pc = "done" /\ ~psm.out.raised

\* Average confidence of strategy k as a fraction num/den of 100.
AvgNum(k) == SumSeq(PositiveConf(psm.run[k].conf))
AvgDen(k) == Max(1, Len(PositiveConf(psm.run[k].conf)))

ReachesGoodEnough(k) == AvgNum(k) >= GOOD_ENOUGH_PCT * AvgDen(k)

\* Strategy k has the highest average confidence among the first n.
HighestAmong(k, n) ==
  /\ k \in 1..n
  /\ \A j \in 1..n : AvgNum(k) * AvgDen(j) >= AvgNum(j) * AvgDen(k)

----------------------------------------------------------------------------
\* Properties of unit normalization

Normalized == lab_pc = "done"

\* _normalize_units converts the measurement.
NeedsConversion(m) ==
  \/ m.abbreviation = "WBC_CUMM"
  \/ m.abbreviation = "PLT" /\ m.lakh

\* What conversion changes: the code of a /cumm white cell count.
ConvertedCode(m) == IF m.abbreviation = "WBC_CUMM" THEN "WBC" ELSE m.abbreviation

\* C29: unit normalization changes only the code, value and unit of a converted
\* measurement, its raw text and prior values are carried over, and a
\* measurement that needs no conversion passes through untouched.
C29_ConversionCarriesTheRest ==
  Normalized =>
    \A k \in DOMAIN lab_out :
      \E j \in DOMAIN lab_results :
        LET m == lab_results[j]
        IN IF NeedsConversion(m)
             THEN /\ lab_out[k].abbreviation = ConvertedCode(m)
                  /\ lab_out[k].lakh = m.lakh
                  /\ lab_out[k].prior_values = m.prior_values
             ELSE lab_out[k] = m

----------------------------------------------------------------------------
\* Monotonicity of the severity tiers

\* classify_measurement of the family's module.
ClassifyIn(family, abbreviation, value) ==
  CASE family = "stress"   -> Stress_classify_measurement(abbreviation, value)
    [] family = "carotid"  -> Carotid_classify_measurement(abbreviation, value)
    [] family = "coronary" -> Coronary_classify_measurement(abbreviation, value)
    [] family = "arterial" -> Arterial_classify_measurement(abbreviation, value)
    [] family = "venous"   -> Venous_classify_measurement(abbreviation, value)

\* The tiers in order of severity.
TierRank(status) ==
  CASE status = "normal" -> 0
    [] status = "mildly_abnormal" -> 1
    [] status = "moderately_abnormal" -> 2
    [] status = "severely_abnormal" -> 3

\* The classified value lies outside the normal range of a code of the table.
Abnormal ==
  /\ Called
  /\ cls.abbreviation \in DOMAIN ReferenceRanges(cls.family)
  /\ cls.result.direction # "normal"

\* w lies on the same side of the normal range as the classified value and
\* farther from it.
Farther(w) ==
  IF cls.result.direction = "above_normal" THEN w > cls.value ELSE w < cls.value

\* C30: for every code of every family's table, a value on the same side of the
\* normal range as the classified value and farther from it never receives a
\* lower severity tier.
C30_SeverityMonotone ==
  Abnormal =>
    \A w \in ProbeValues(cls.family, cls.abbreviation) :
      Farther(w) =>
        LET far == ClassifyIn(cls.family, cls.abbreviation, w)
        IN /\ far.direction = cls.result.direction
           /\ TierRank(far.status) >= TierRank(cls.result.status)

\* A right atrial mean pressure just above the mild cutoff is moderately
\* abnormal; the probe just above the moderate cutoff is severely abnormal.
C30_Witness ==
  /\ Abnormal
  /\ cls.family = "coronary" /\ cls.abbreviation = "RA_mean" /\ cls.value = 1201
  /\ cls.result.status = "moderately_abnormal"
  /\ 1601 \in ProbeValues(cls.family, cls.abbreviation)
  /\ ClassifyIn(cls.family, cls.abbreviation, 1601).status = "severely_abnormal"

====
